---- MODULE Spec2Model ----
(***************************************************************************)
(* State-machine model of the session engine of redoubt-desktop:           *)
(*   - WebSocketManager  (src/vite.config.ts 98-310): one instance's       *)
(*     socket, reconnect backoff, reference-counted subscribers;           *)
(*   - ConnectionManager (src/vite.config.ts 349-737): the fleet of        *)
(*     WebSocketManagers, the outbound queue, inbound dispatch;            *)
(*   - the chat store    (src/src/store/chatStore.ts): optimistic sends.   *)
(*                                                                         *)
(* JavaScript runs every handler to completion, so each action below is    *)
(* one whole task of the event loop: a public call, a timer callback, a    *)
(* socket event or the continuation of an await.  A method is an operator  *)
(* from world to world (the record W holds every variable), so that a      *)
(* handler that calls other methods is their composition.                  *)
(***************************************************************************)
EXTENDS Integers, Sequences, FiniteSets, TLC

\* ------------------------------------------------------------------ bounds
\* Each specification explores the same tasks under its own bounds: a task
\* whose outcome would exceed a bound of the specification is not taken.
\* Spec: the lifecycle of one instance's connection.
MaxSockets == 2    \* WebSocket objects of one manager not yet closed
MaxSubs == 2       \* subscriptions registered on one manager
MaxAwait == 2      \* connect() calls of one manager suspended on the token
MaxTimers == 1     \* pending grace timers; untracked reconnect timers
MaxAttempts == 6   \* cap of the reconnect attempt counter

LifeBounds ==
  [sockets |-> MaxSockets, subs |-> MaxSubs, await |-> MaxAwait,
   timers |-> MaxTimers, attempts |-> MaxAttempts, msgs |-> 0, frames |-> 0,
   switches |-> 0, scenario |-> FALSE]

\* SpecQueue: the outbound queue of one instance.
QMsgs == 2         \* messages handed to ConnectionManager.send, pongs included
QSockets == 1
QSubs == 2
QAwait == 1
QTimers == 1
QAttempts == 1

QueueBounds ==
  [sockets |-> QSockets, subs |-> QSubs, await |-> QAwait,
   timers |-> QTimers, attempts |-> QAttempts, msgs |-> QMsgs, frames |-> 0,
   switches |-> 0, scenario |-> FALSE]

\* SpecDispatch: the inbound frames of two instances.
MaxFrames == 2     \* frames the sockets of one instance deliver
DSockets == 1
DSubs == 2
DAwait == 1
DTimers == 1
DAttempts == 1

DispatchBounds ==
  [sockets |-> DSockets, subs |-> DSubs, await |-> DAwait,
   timers |-> DTimers, attempts |-> DAttempts, msgs |-> 0,
   frames |-> MaxFrames, switches |-> 0, scenario |-> FALSE]

\* SpecScenario: one send over REST beside the connection of its instance.
ScAttempts == 4    \* cap of the reconnect attempt counter
ScMsgs == 1        \* messages handed to ConnectionManager.send
ScSockets == 1
ScSubs == 1
ScAwait == 1
ScTimers == 1

ScenarioBounds ==
  [sockets |-> ScSockets, subs |-> ScSubs, await |-> ScAwait,
   timers |-> ScTimers, attempts |-> ScAttempts, msgs |-> ScMsgs, frames |-> 0,
   switches |-> 0, scenario |-> TRUE]

\* SpecSwitch: switchInstance between two instances.
MaxSwitches == 3   \* switchInstance calls
SwSockets == 1
SwSubs == 2
SwAwait == 1
SwTimers == 1
SwAttempts == 1

SwitchBounds ==
  [sockets |-> SwSockets, subs |-> SwSubs, await |-> SwAwait,
   timers |-> SwTimers, attempts |-> SwAttempts, msgs |-> 0, frames |-> 0,
   switches |-> MaxSwitches, scenario |-> FALSE]

\* SpecChat: the message list of one channel of one instance.
MaxSends == 2      \* sendMessage calls (retries included)
MaxRetries == 2    \* retryMessage calls
MaxLoads == 1      \* loadMessages calls
MaxForeign == 1    \* messages other users create in the channel

\* SpecReact: the reactions of one message.
MaxReactionOps == 3  \* reaction changes the server makes (toggles, other users)

\* SpecRefresh: the token refresh of one instance.
MaxRest401 == 2      \* REST requests answered 401
MaxTokenCalls == 2   \* getValidToken calls of connect()

\* SpecRegistry: the chat stores of two instances.
MaxContainers == 3   \* containers the factory constructs
MaxValue == 2        \* changes made to the state of one container

InstanceIds == {"i1", "i2"}
UserIds == {"u1", "u2"}
Slots == 1..4

\* ------------------------------------------------------- program constants
RECONNECT_DELAYS == <<1000, 2000, 5000, 10000, 30000>>
CLOSE_SESSION_REPLACED == 4000
CLOSE_CLEAN == 1000
\* Close codes a close event may carry: clean, superseded, and 1006 for
\* every abnormal closure (the code the WebSocket API reports for a failed
\* or aborted connection).
CloseCodes == {1000, 1006, 4000}
AbnormalCodes == {1006}

NoConn == [none |-> TRUE]

VARIABLES
  instances,          \* useInstanceStore: the configured instances
  wsm,                \* per instance: the fields of its WebSocketManager
  sockets,            \* per instance: [Slots -> state of a WebSocket object]
  awaitingToken,      \* per instance: connect() calls suspended at the await
  cleanupTimers,      \* per instance: pending 100 ms unsubscribe timers
  orphanTimers,       \* per instance: pending reconnect timers whose handle was overwritten
  connections,        \* ConnectionManager.connections
  instStatus,         \* useInstanceStore connection state, per instance
  presenceConnected,  \* presence store's connected flag, per instance
  wire,               \* per instance: the frames transmitted, in order
  nextId,             \* identity of the next message handed to send()
  everQueued,         \* ids of the messages that were put on a queue
  dropped,            \* ids of the messages whose queue was destroyed
  closesSinceReset,   \* per instance: non-suppressed closes since the counter was reset
  scheduledDelay,     \* per instance: delay of the reconnect timer scheduled last
  frameNo,            \* per instance: frames its sockets delivered, where numbered
  dispatched,         \* per instance: the dispatches of numbered frames, in order
  activeInstanceId,   \* ConnectionManager.activeInstanceId, "none" for null
  switching,          \* switchInstance calls suspended on await disconnect()
  switchCount,        \* switchInstance calls made
  voice,              \* the voice store: hosting instance ("none" for null), room
  scenarioA,          \* how far the behaviour has followed scenario A
  last,               \* the task that ran last
  messagesByChannel,  \* chat store: the message list of the channel
  nextNonce,          \* the next value of crypto.randomUUID()
  restCalls,          \* per nonce: where the REST send of that nonce is
  serverMessages,     \* the server's messages of the channel, oldest first
  foreignCount,       \* messages other users have created
  inbound,            \* message.create events not yet delivered, in order
  listCall,           \* the listMessages call of loadMessages
  loadsStarted,       \* loadMessages calls so far
  arrived,            \* nonces whose REST response or create event has arrived
  discarded,          \* nonces handed to discardMessage
  contents,           \* per nonce: the content sendMessage was called with
  retryCalls,         \* the nonces retryMessage was called with, in call order
  reactions,          \* chat store: the reaction list of the message
  serverReactions,    \* the server's reactions of the message: <<user, emoji>>
  reactionOps,        \* reaction changes the server has made
  toggleCalls,        \* toggleReaction calls in flight
  reactionEvents,     \* reaction.add / reaction.remove events not yet delivered
  lastReaction,       \* the reaction task that ran last
  credentials,        \* the stored credentials of the instance
  refreshPromise,     \* ApiClient.refreshPromise: "null", or where its body is
  refreshWaiters,     \* REST requests awaiting tryRefreshToken
  pendingRefresh,     \* POST /auth/refresh requests not yet answered, by caller
  refreshCalls,       \* calls made: REST requests answered 401, getValidToken
  tokenVersion,       \* which access token is stored: 1 at login, +1 per refresh
  tokenCalls,         \* the getValidToken calls of connect(), in call order
  stores,             \* registry: instance id -> container, 0 for no entry
  containers,         \* the containers constructed so far, and their state
  factoryCalls,       \* per id: factory invocations since the id was cleared
  lastRegistry        \* the registry operation that ran last

connState == <<instances, wsm, sockets, awaitingToken, cleanupTimers, orphanTimers,
               connections, instStatus, presenceConnected, wire, nextId,
               everQueued, dropped, closesSinceReset, scheduledDelay,
               frameNo, dispatched, activeInstanceId, switching, switchCount,
               voice, scenarioA>>

connVars == <<connState, last>>

chatVars == <<messagesByChannel, nextNonce, restCalls, serverMessages,
              foreignCount, inbound, listCall, loadsStarted, arrived, discarded,
              contents, retryCalls>>

reactVars == <<reactions, serverReactions, reactionOps, toggleCalls,
               reactionEvents, lastReaction>>

refreshVars == <<credentials, refreshPromise, refreshWaiters, pendingRefresh,
                 refreshCalls, tokenVersion, tokenCalls>>

registryVars == <<stores, containers, factoryCalls, lastRegistry>>

vars == <<connVars, chatVars, reactVars, refreshVars, registryVars>>

\* The world as one record, threaded through the methods.
World ==
  [wsm |-> wsm, sockets |-> sockets, awaitingToken |-> awaitingToken,
   cleanupTimers |-> cleanupTimers, orphanTimers |-> orphanTimers,
   connections |-> connections, instStatus |-> instStatus,
   presenceConnected |-> presenceConnected, wire |-> wire, nextId |-> nextId,
   everQueued |-> everQueued, dropped |-> dropped,
   closesSinceReset |-> closesSinceReset, scheduledDelay |-> scheduledDelay,
   frameNo |-> frameNo, dispatched |-> dispatched,
   activeInstanceId |-> activeInstanceId, switching |-> switching,
   switchCount |-> switchCount, voice |-> voice,
   handled |-> 0, overflow |-> FALSE]

\* The bounds B of a specification, on the world W a task leaves.
WithinBounds(B, W) ==
  /\ ~W.overflow
  /\ \A m \in InstanceIds :
       /\ W.wsm[m].subscriberCount <= B.subs
       /\ W.awaitingToken[m] <= B.await
       /\ W.cleanupTimers[m] <= B.timers
       /\ W.orphanTimers[m] <= B.timers
       /\ W.wsm[m].reconnectAttempts <= B.attempts
       /\ \A s \in Slots : s > B.sockets => W.sockets[m][s] = "NONE"
       /\ W.frameNo[m] <= B.frames
  /\ W.nextId <= B.msgs + 1
  /\ W.switchCount <= B.switches

\* Scenario A, followed by the tasks of the connection: 1 a record of the
\* send of nonce 1 is pending; 2, 3, 4 since then the first, second, third
\* reconnect attempt has failed; 5 the connection has succeeded and the
\* task that confirmed it has put the queued typing.start on the wire while
\* the REST call of the send was still out.
RestPending(T) == restCalls[T] \in {"sent", "processed"}

PendingRecord(list, T) ==
  \E k \in 1..Len(list) : list[k].optimistic /\ list[k].nonce = T /\ list[k].pending

ScenarioANext(W, ev) ==
  LET base == IF scenarioA = 0 /\ PendingRecord(messagesByChannel, 1) /\ RestPending(1)
              THEN 1 ELSE scenarioA
  IN IF /\ base \in 1..3
        /\ ev.op = "error"
        /\ wsm[ev.m].reconnectAttempts = base
     THEN base + 1
     ELSE IF /\ base = 4
             /\ ev.op = "auth.success"
             /\ W.instStatus[ev.m] = "connected"
             /\ RestPending(1)
             /\ Len(W.wire[ev.m]) > Len(wire[ev.m])
             /\ W.wire[ev.m][Len(W.wire[ev.m])].type = "typing.start"
             /\ W.wire[ev.m][Len(W.wire[ev.m])].id \in everQueued
          THEN 5
          ELSE base

Commit(B, W, ev) ==
  /\ WithinBounds(B, W)
  /\ wsm' = W.wsm
  /\ sockets' = W.sockets
  /\ awaitingToken' = W.awaitingToken
  /\ cleanupTimers' = W.cleanupTimers
  /\ orphanTimers' = W.orphanTimers
  /\ connections' = W.connections
  /\ instStatus' = W.instStatus
  /\ presenceConnected' = W.presenceConnected
  /\ wire' = W.wire
  /\ nextId' = W.nextId
  /\ everQueued' = W.everQueued
  /\ dropped' = W.dropped
  /\ closesSinceReset' = W.closesSinceReset
  /\ scheduledDelay' = W.scheduledDelay
  /\ frameNo' = W.frameNo
  /\ dispatched' = W.dispatched
  /\ activeInstanceId' = W.activeInstanceId
  /\ switching' = W.switching
  /\ switchCount' = W.switchCount
  /\ voice' = W.voice
  /\ scenarioA' = IF B.scenario THEN ScenarioANext(W, ev) ELSE scenarioA
  /\ last' = [ev EXCEPT !.handled = W.handled]
  /\ UNCHANGED <<instances, chatVars, reactVars, refreshVars, registryVars>>

Min(a, b) == IF a < b THEN a ELSE b

\* ------------------------------------------------------- WebSocketManager

\* Field initialisers and constructor.
NewManager(i) ==
  [instanceId |-> i, ws |-> 0, subscriberCount |-> 0,
   reconnectTimeout |-> "undefined", reconnectAttempts |-> 0,
   isConnecting |-> FALSE, handlers |-> 0, currentUserId |-> "null"]

\* No WebSocketManager was constructed for the instance yet.
Unused == NewManager("none")

\* WebSocket.readyState of socket s of manager m (null handle: "NULL").
\* A socket closed while CONNECTING ("ABORTING") reads CLOSING as well.
ReadyState(W, m, s) ==
  IF s = 0 THEN "NULL"
  ELSE IF W.sockets[m][s] = "ABORTING" THEN "CLOSING"
  ELSE IF W.sockets[m][s] = "NONE" THEN "CLOSED"
  ELSE W.sockets[m][s]

\* get isOpen
IsOpen(W, m) == ReadyState(W, m, W.wsm[m].ws) = "OPEN"

\* The sockets of manager m that are CONNECTING or OPEN.
LiveSockets(W, m) == {s \in Slots : W.sockets[m][s] \in {"CONNECTING", "OPEN"}}


\* send(data): transmits only on an OPEN socket, otherwise drops silently.
\* The frame is logged with the length the instance's queue has at that
\* moment.
QueueLen(W, i) ==
  IF W.connections[i] = NoConn THEN 0 ELSE Len(W.connections[i].messageQueue)

WsSend(W, m, msg) ==
  LET i == W.wsm[m].instanceId IN
  IF IsOpen(W, m)
  THEN [W EXCEPT !.wire[i] =
          Append(@, [id |-> msg.id, type |-> msg.type, qlen |-> QueueLen(W, i)])]
  ELSE W

\* sendMessage(type, payload)
WsSendMessage(W, m, msg) == WsSend(W, m, msg)

\* closeConnection()
CloseConnection(W, m) ==
  LET w == W.wsm[m]
      s == w.ws
      closing == IF s = 0 THEN W.sockets[m]
                 ELSE IF W.sockets[m][s] = "OPEN"
                      THEN [W.sockets[m] EXCEPT ![s] = "CLOSING"]
                 ELSE IF W.sockets[m][s] = "CONNECTING"
                      THEN [W.sockets[m] EXCEPT ![s] = "ABORTING"]
                 ELSE W.sockets[m]
  IN [W EXCEPT !.wsm[m].reconnectTimeout = "undefined",
               !.sockets[m] = closing,
               !.wsm[m].ws = 0,
               !.wsm[m].isConnecting = FALSE,
               !.wsm[m].reconnectAttempts = 0,
               !.wsm[m].currentUserId = "null",
               !.closesSinceReset[m] = 0]

\* connect(), up to its await of getValidToken.
Connect(W, m) ==
  IF W.wsm[m].isConnecting \/ IsOpen(W, m)
  THEN W
  ELSE [W EXCEPT !.wsm[m].isConnecting = TRUE,
                 !.awaitingToken[m] = @ + 1]

\* ------------------------------------------------------ ConnectionManager

\* Faulty variant of CMSend: decides on the recorded status, not on isOpen.
CMSendByStatus(W, i, msg) ==
  LET conn == W.connections[i] IN
  IF conn = NoConn THEN W
  ELSE IF conn.status = "connected"
       THEN WsSendMessage(W, conn.websocket, msg)
       ELSE [W EXCEPT !.connections[i].messageQueue = Append(@, msg),
                      !.everQueued = @ \cup {msg.id}]

\* send(instanceId, type, payload)
CMSend(W, i, msg) ==
  LET conn == W.connections[i] IN
  IF conn = NoConn THEN W
  ELSE IF IsOpen(W, conn.websocket)
       THEN WsSendMessage(W, conn.websocket, msg)
       ELSE [W EXCEPT !.connections[i].messageQueue = Append(@, msg),
                      !.everQueued = @ \cup {msg.id}]

\* The for-loop of flushMessageQueue.
RECURSIVE SendEach(_, _, _)
SendEach(W, m, queue) ==
  IF queue = <<>> THEN W
  ELSE SendEach(WsSendMessage(W, m, Head(queue)), m, Tail(queue))

\* Faulty variant of FlushMessageQueue: the queue is cleared after the replay.
FlushMessageQueueClearAfter(W, i) ==
  LET conn == W.connections[i] IN
  IF conn = NoConn THEN W
  ELSE IF ~IsOpen(W, conn.websocket) THEN W
  ELSE IF conn.messageQueue = <<>> THEN W
  ELSE [SendEach(W, conn.websocket, conn.messageQueue)
          EXCEPT !.connections[i].messageQueue = <<>>]

\* Faulty variant of FlushMessageQueue: the queue is not cleared at all.
FlushMessageQueueNoClear(W, i) ==
  LET conn == W.connections[i] IN
  IF conn = NoConn THEN W
  ELSE IF ~IsOpen(W, conn.websocket) THEN W
  ELSE IF conn.messageQueue = <<>> THEN W
  ELSE SendEach(W, conn.websocket, conn.messageQueue)

\* flushMessageQueue(instanceId)
FlushMessageQueue(W, i) ==
  LET conn == W.connections[i] IN
  IF conn = NoConn THEN W
  ELSE IF ~IsOpen(W, conn.websocket) THEN W
  ELSE IF conn.messageQueue = <<>> THEN W
  ELSE SendEach([W EXCEPT !.connections[i].messageQueue = <<>>],
                conn.websocket, conn.messageQueue)

\* Faulty variant of HandleConnectionChange: the status is written for
\* every instance.
HandleConnectionChangeAll(W, i, connected) ==
  LET status == IF connected THEN "connected" ELSE "disconnected"
      W1 == IF W.connections[i] = NoConn THEN W
            ELSE [W EXCEPT !.connections[i].status = status]
      W2 == [W1 EXCEPT !.instStatus = [j \in InstanceIds |-> status],
                       !.presenceConnected[i] = connected]
  IN IF connected THEN FlushMessageQueue(W2, i) ELSE W2

\* handleConnectionChange(instanceId, connected)
HandleConnectionChange(W, i, connected) ==
  LET status == IF connected THEN "connected" ELSE "disconnected"
      W1 == IF W.connections[i] = NoConn THEN W
            ELSE [W EXCEPT !.connections[i].status = status]
      W2 == [W1 EXCEPT !.instStatus[i] = status,
                       !.presenceConnected[i] = connected]
  IN IF connected THEN FlushMessageQueue(W2, i) ELSE W2

\* Faulty variant of HandleMessage: the event reaches the stores ahead of
\* the events dispatched before it.
HandleMessageOvertakes(W, i, type) ==
  LET W1 == [W EXCEPT !.handled = @ + 1,
                      !.dispatched[i] =
                         IF W.frameNo[i] > 0
                         THEN <<[frame |-> W.frameNo[i], type |-> type]>> \o @
                         ELSE @]
  IN IF type = "ping"
     THEN CMSend([W1 EXCEPT !.nextId = @ + 1], i, [id |-> W1.nextId, type |-> "pong"])
     ELSE W1

\* handleMessage(instanceId, event): the dispatch table.  A ping is answered
\* with a pong, which takes the next message identity.  The invocation is
\* counted, and logged with the number of its frame where frames are numbered.
HandleMessage(W, i, type) ==
  LET W1 == [W EXCEPT !.handled = @ + 1,
                      !.dispatched[i] =
                         IF W.frameNo[i] > 0
                         THEN Append(@, [frame |-> W.frameNo[i], type |-> type])
                         ELSE @]
  IN IF type = "ping"
     THEN CMSend([W1 EXCEPT !.nextId = @ + 1], i, [id |-> W1.nextId, type |-> "pong"])
     ELSE W1

\* ------------------------------------- WebSocketManager, handlers and events

\* notifyConnectionChange(connected): every registered handler, each of them
\* a closure over ConnectionManager.handleConnectionChange.
RECURSIVE NotifyConnectionChangeN(_, _, _, _)
NotifyConnectionChangeN(W, m, connected, n) ==
  IF n = 0 THEN W
  ELSE NotifyConnectionChangeN(
         HandleConnectionChange(W, W.wsm[m].instanceId, connected),
         m, connected, n - 1)

NotifyConnectionChange(W, m, connected) ==
  NotifyConnectionChangeN(W, m, connected, W.wsm[m].handlers)

\* notifyMessage(event)
RECURSIVE NotifyMessageN(_, _, _, _)
NotifyMessageN(W, m, type, n) ==
  IF n = 0 THEN W
  ELSE NotifyMessageN(HandleMessage(W, W.wsm[m].instanceId, type), m, type, n - 1)

NotifyMessage(W, m, type) == NotifyMessageN(W, m, type, W.wsm[m].handlers)

\* Faulty variant of Subscribe: the session of the previous user is kept.
SubscribeKeepsSession(W, m, userId) ==
  LET W1 == [W EXCEPT !.wsm[m].subscriberCount = @ + 1,
                      !.wsm[m].handlers = @ + 1]
      W3 == [W1 EXCEPT !.wsm[m].currentUserId = userId]
  IN IF W3.wsm[m].ws = 0 /\ ~W3.wsm[m].isConnecting THEN Connect(W3, m) ELSE W3

\* subscribe(userId, onMessage, onConnectedChange)
Subscribe(W, m, userId) ==
  LET W1 == [W EXCEPT !.wsm[m].subscriberCount = @ + 1,
                      !.wsm[m].handlers = @ + 1]
      W2 == IF W1.wsm[m].currentUserId # "null" /\ W1.wsm[m].currentUserId # userId
            THEN CloseConnection(W1, m) ELSE W1
      W3 == [W2 EXCEPT !.wsm[m].currentUserId = userId]
  IN IF W3.wsm[m].ws = 0 /\ ~W3.wsm[m].isConnecting THEN Connect(W3, m) ELSE W3

\* The teardown function subscribe returns, up to its setTimeout.
Unsubscribe(W, m) ==
  [W EXCEPT !.wsm[m].subscriberCount = @ - 1,
            !.wsm[m].handlers = @ - 1,
            !.cleanupTimers[m] = @ + 1]

\* Faulty variant of CleanupCallback: tears down without looking at the count.
CleanupCallbackUnchecked(W, m) ==
  NotifyConnectionChange(CloseConnection(W, m), m, FALSE)

\* The callback of the teardown's 100 ms timer.
CleanupCallback(W, m) ==
  IF W.wsm[m].subscriberCount = 0
  THEN NotifyConnectionChange(CloseConnection(W, m), m, FALSE)
  ELSE W

\* The lowest socket slot of manager m that holds no socket (0: none left).
FreeSlot(W, m) ==
  IF \E s \in Slots : W.sockets[m][s] = "NONE"
  THEN CHOOSE s \in Slots :
         /\ W.sockets[m][s] = "NONE"
         /\ \A t \in Slots : W.sockets[m][t] = "NONE" => s <= t
  ELSE 0

\* Faulty variant of ConnectResume: the subscribers are not counted again
\* after the await.
ConnectResumeIgnoresSubscribers(W, m, hasToken) ==
  LET W1 == [W EXCEPT !.awaitingToken[m] = @ - 1]
      s == FreeSlot(W, m)
  IN IF ~hasToken THEN [W1 EXCEPT !.wsm[m].isConnecting = FALSE]
     ELSE IF s = 0 THEN [W1 EXCEPT !.overflow = TRUE]
     ELSE [W1 EXCEPT !.sockets[m][s] = "CONNECTING", !.wsm[m].ws = s]

\* Faulty variant of ConnectResume: without a token the attempt stays marked
\* as connecting.
ConnectResumeStuck(W, m, hasToken) ==
  LET W1 == [W EXCEPT !.awaitingToken[m] = @ - 1]
      s == FreeSlot(W, m)
  IN IF ~hasToken THEN W1
     ELSE IF W1.wsm[m].subscriberCount = 0
          THEN [W1 EXCEPT !.wsm[m].isConnecting = FALSE]
     ELSE IF s = 0 THEN [W1 EXCEPT !.overflow = TRUE]
     ELSE [W1 EXCEPT !.sockets[m][s] = "CONNECTING", !.wsm[m].ws = s]

\* connect() after its await: the token (or none) is there.
ConnectResume(W, m, hasToken) ==
  LET W1 == [W EXCEPT !.awaitingToken[m] = @ - 1]
      s == FreeSlot(W, m)
  IN IF ~hasToken THEN [W1 EXCEPT !.wsm[m].isConnecting = FALSE]
     ELSE IF W1.wsm[m].subscriberCount = 0
          THEN [W1 EXCEPT !.wsm[m].isConnecting = FALSE]
     ELSE IF s = 0 THEN [W1 EXCEPT !.overflow = TRUE]
     ELSE [W1 EXCEPT !.sockets[m][s] = "CONNECTING", !.wsm[m].ws = s]

\* Faulty variant of OnOpen: the counter is reset at transport open already.
OnOpenResets(W, m) ==
  [W EXCEPT !.wsm[m].isConnecting = FALSE, !.wsm[m].reconnectAttempts = 0]

\* ws.onopen
OnOpen(W, m) == [W EXCEPT !.wsm[m].isConnecting = FALSE]

\* Faulty variant of OnMessage: a frame that does not parse reaches the
\* handlers all the same.
OnMessageUnparsed(W, m, type) ==
  IF type = "auth.success"
  THEN NotifyMessage(
         [NotifyConnectionChange(W, m, TRUE)
            EXCEPT !.wsm[m].reconnectAttempts = 0,
                   !.closesSinceReset[m] = 0],
         m, type)
  ELSE NotifyMessage(W, m, type)

\* ws.onmessage: "bad" is a frame JSON.parse rejects.
OnMessage(W, m, type) ==
  IF type = "bad" THEN W
  ELSE IF type = "auth.success"
       THEN NotifyMessage(
              [NotifyConnectionChange(W, m, TRUE)
                 EXCEPT !.wsm[m].reconnectAttempts = 0,
                        !.closesSinceReset[m] = 0],
              m, type)
       ELSE NotifyMessage(W, m, type)

\* Faulty variant of ReconnectDelay: indexed by the counter after its increment.
ReconnectDelayOffByOne(attempts) ==
  RECONNECT_DELAYS[Min(attempts + 1, Len(RECONNECT_DELAYS) - 1) + 1]

\* The delay onclose computes from the attempt counter.
ReconnectDelay(attempts) ==
  RECONNECT_DELAYS[Min(attempts, Len(RECONNECT_DELAYS) - 1) + 1]

\* Faulty variant of ReconnectSuppressed: the superseded-session code is forgotten.
ReconnectSuppressedNo4000(subscriberCount, code) ==
  \/ subscriberCount = 0
  \/ code = CLOSE_CLEAN

\* Whether onclose returns before scheduling a reconnect.
ReconnectSuppressed(subscriberCount, code) ==
  \/ subscriberCount = 0
  \/ code = CLOSE_CLEAN
  \/ code = CLOSE_SESSION_REPLACED

\* The non-suppressed tail of onclose: delay, counter, setTimeout.  A timer
\* still pending under the overwritten handle stays pending, untracked.
ScheduleReconnect(W, m) ==
  [W EXCEPT !.scheduledDelay[m] = ReconnectDelay(W.wsm[m].reconnectAttempts),
            !.wsm[m].reconnectAttempts = @ + 1,
            !.closesSinceReset[m] = @ + 1,
            !.orphanTimers[m] =
               IF W.wsm[m].reconnectTimeout = "pending" THEN @ + 1 ELSE @,
            !.wsm[m].reconnectTimeout = "pending"]

\* ws.onclose
OnClose(W, m, code) ==
  LET W1 == NotifyConnectionChange(
              [W EXCEPT !.wsm[m].isConnecting = FALSE, !.wsm[m].ws = 0],
              m, FALSE)
  IN IF ReconnectSuppressed(W1.wsm[m].subscriberCount, code) THEN W1
     ELSE ScheduleReconnect(W1, m)

\* ws.onerror
OnError(W, m) == [W EXCEPT !.wsm[m].isConnecting = FALSE]

\* Faulty variant of ReconnectCallback: the subscriber test is inverted.
ReconnectCallbackInverted(W, m) ==
  IF W.wsm[m].subscriberCount = 0 THEN Connect(W, m) ELSE W

\* The callback of the reconnect timer.
ReconnectCallback(W, m) ==
  IF W.wsm[m].subscriberCount > 0 THEN Connect(W, m) ELSE W

\* --------------------------------------- ConnectionManager, public methods

\* Nothing of the manager of instance m is left to run: no socket, no
\* suspended connect(), no timer.
Quiescent(W, m) ==
  /\ \A s \in Slots : W.sockets[m][s] = "NONE"
  /\ W.awaitingToken[m] = 0
  /\ W.cleanupTimers[m] = 0
  /\ W.orphanTimers[m] = 0
  /\ W.wsm[m].reconnectTimeout # "pending"

\* Faulty variant of CMConnect: no check for an existing connected record.
CMConnectAlways(W, i, userId) ==
  LET existing == W.connections[i]
      W1 == [W EXCEPT !.instStatus[i] = "connecting"]
      W2 == IF existing # NoConn THEN W1
            ELSE [W1 EXCEPT !.wsm[i] = NewManager(i),
                            !.closesSinceReset[i] = 0,
                            !.scheduledDelay[i] = 0,
                            !.connections[i] =
                               [websocket |-> i, status |-> "connecting",
                                unsubscribe |-> FALSE, messageQueue |-> <<>>]]
  IN IF existing = NoConn /\ ~Quiescent(W, i) THEN [W EXCEPT !.overflow = TRUE]
     ELSE [Subscribe(W2, i, userId) EXCEPT !.connections[i].unsubscribe = TRUE]

\* connect(instanceId, userId), for a configured instance.  The manager it
\* constructs takes the place of the instance's previous one, which
\* disconnect() dropped; a construction while that one still has tasks to
\* run is not explored.
CMConnect(W, i, userId) ==
  LET existing == W.connections[i]
      W1 == [W EXCEPT !.instStatus[i] = "connecting"]
      W2 == IF existing # NoConn THEN W1
            ELSE [W1 EXCEPT !.wsm[i] = NewManager(i),
                            !.closesSinceReset[i] = 0,
                            !.scheduledDelay[i] = 0,
                            !.connections[i] =
                               [websocket |-> i, status |-> "connecting",
                                unsubscribe |-> FALSE, messageQueue |-> <<>>]]
  IN IF existing # NoConn /\ existing.status = "connected" THEN W
     ELSE IF existing = NoConn /\ ~Quiescent(W, i) THEN [W EXCEPT !.overflow = TRUE]
     ELSE [Subscribe(W2, i, userId) EXCEPT !.connections[i].unsubscribe = TRUE]

\* The voice store's initial state, which reset() sets.
VoiceInitialState == [instanceId |-> "none", room |-> FALSE]

\* Faulty variant of CMDisconnect: the voice store is reset whatever
\* instance hosts the session.
CMDisconnectResetsVoice(W, i) ==
  LET conn == W.connections[i]
      m == conn.websocket
      W0 == [W EXCEPT !.voice = VoiceInitialState]
      W1 == IF conn.unsubscribe THEN Unsubscribe(W0, m) ELSE W0
      W2 == CloseConnection(W1, m)
  IN IF conn = NoConn THEN W
     ELSE [W2 EXCEPT !.connections[i] = NoConn,
                     !.instStatus[i] = "disconnected",
                     !.dropped = @ \cup {conn.messageQueue[k].id :
                                          k \in 1..Len(conn.messageQueue)}]

\* disconnect(instanceId)
CMDisconnect(W, i) ==
  LET conn == W.connections[i]
      m == conn.websocket
      W0 == IF W.voice.instanceId = i THEN [W EXCEPT !.voice = VoiceInitialState]
            ELSE W
      W1 == IF conn.unsubscribe THEN Unsubscribe(W0, m) ELSE W0
      W2 == CloseConnection(W1, m)
  IN IF conn = NoConn THEN W
     ELSE [W2 EXCEPT !.connections[i] = NoConn,
                     !.instStatus[i] = "disconnected",
                     !.dropped = @ \cup {conn.messageQueue[k].id :
                                          k \in 1..Len(conn.messageQueue)}]

\* switchInstance(instanceId, userId) from "this.activeInstanceId =
\* instanceId" on: where the call resumes after await disconnect(), or
\* where it starts when there is nothing to disconnect.
SwitchInstanceResume(W, i, userId) ==
  CMConnect([W EXCEPT !.activeInstanceId = i], i, userId)

\* switchInstance(instanceId, userId), up to its first await: disconnect()
\* has no await of its own, so the call runs it to its end and is then
\* suspended; code tells whether the previous instance had a record.
SwitchInstance(W, i, userId) ==
  IF W.activeInstanceId # "none" /\ W.activeInstanceId # i
  THEN [CMDisconnect(W, W.activeInstanceId)
          EXCEPT !.switching =
                   Append(@, [instanceId |-> i, userId |-> userId,
                              code |-> IF W.connections[W.activeInstanceId] # NoConn
                                       THEN 1 ELSE 0])]
  ELSE SwitchInstanceResume(W, i, userId)


\* ------------------------------------------------------------------ tasks
\* One task of the event loop each, under the bounds B.  m names the
\* instance whose WebSocketManager (or socket, or timer) the task belongs to.

Ev(op, m, code) ==
  [op |-> op, m |-> m, code |-> code, subs |-> wsm[m].subscriberCount,
   handled |-> 0]

\* A caller invokes connectionManager.connect(i, u).
CallConnect(B, i, u) ==
  Commit(B, CMConnect(World, i, u), Ev("connect", i, 0))

\* A caller invokes connectionManager.disconnect(i).
CallDisconnect(B, i) ==
  Commit(B, CMDisconnect(World, i), Ev("disconnect", i, 0))

\* removeInstance(i) of the instance store: the instance leaves the list,
\* its connection-state entry is deleted, and when it was the active one
\* the first remaining instance (or none) becomes active.  The stored
\* credentials and the cached API client of i are cleared as well.
RemoveInstance(i) ==
  /\ i \in instances
  /\ instances' = instances \ {i}
  /\ instStatus' = [instStatus EXCEPT ![i] = "disconnected"]
  /\ activeInstanceId' =
       IF activeInstanceId # i THEN activeInstanceId
       ELSE IF instances \ {i} = {} THEN "none"
       ELSE CHOOSE j \in instances \ {i} : TRUE
  /\ last' = Ev("removeInstance", i, 0)
  /\ UNCHANGED <<wsm, sockets, awaitingToken, cleanupTimers, orphanTimers,
                 connections, presenceConnected, wire, nextId, everQueued,
                 dropped, closesSinceReset, scheduledDelay, frameNo, dispatched,
                 switching, switchCount, voice, scenarioA>>
  /\ UNCHANGED <<chatVars, reactVars, refreshVars, registryVars>>

\* The voice hook joins a channel of instance v: the room is stored and v
\* is the hosting instance.
VoiceJoins(B, v) ==
  /\ voice.instanceId # v
  /\ Commit(B, [World EXCEPT !.voice = [instanceId |-> v, room |-> TRUE]],
            Ev("voice.joined", v, 0))

\* The voice hook leaves the channel: reset().
VoiceLeaves(B) ==
  /\ voice.instanceId # "none"
  /\ Commit(B, [World EXCEPT !.voice = VoiceInitialState],
            Ev("voice.left", voice.instanceId, 0))

\* A caller invokes connectionManager.switchInstance(i, u).
CallSwitchInstance(B, i, u) ==
  Commit(B, SwitchInstance([World EXCEPT !.switchCount = @ + 1], i, u),
         Ev("switch", i, 0))

\* The oldest suspended switchInstance call resumes (a microtask).
SwitchResumes(B) ==
  /\ switching # <<>>
  /\ Commit(B, SwitchInstanceResume([World EXCEPT !.switching = Tail(@)],
                                    Head(switching).instanceId,
                                    Head(switching).userId),
            Ev("switch.connect", Head(switching).instanceId, Head(switching).code))

\* A caller invokes connectionManager.send(i, "typing.start", ...).
CallSend(B, i) ==
  Commit(B, CMSend([World EXCEPT !.nextId = @ + 1], i,
                   [id |-> nextId, type |-> "typing.start"]),
         Ev("send", i, 0))

\* getValidToken settles and connect() resumes, with a token (code 1) or
\* without (code 0).
TokenResolved(B, m, hasToken) ==
  /\ awaitingToken[m] > 0
  /\ Commit(B, ConnectResume(World, m, hasToken),
            Ev("token", m, IF hasToken THEN 1 ELSE 0))

\* The handshake of socket s completes: open event.
SocketOpen(B, m, s) ==
  /\ sockets[m][s] = "CONNECTING"
  /\ Commit(B, OnOpen([World EXCEPT !.sockets[m][s] = "OPEN"], m), Ev("open", m, 0))

\* A frame arrives on the open socket s: message event.  A specification
\* with frames > 0 numbers the frames of an instance in their order.
SocketMessage(B, m, s, type) ==
  /\ sockets[m][s] = "OPEN"
  /\ Commit(B, OnMessage([World EXCEPT !.frameNo[m] =
                                          IF B.frames > 0 THEN @ + 1 ELSE @],
                         m, type),
            Ev(type, m, 0))

\* Socket s closes without a transport error: close event.  An open socket
\* is closed by the server with any code; one this side closed completes
\* the closing handshake (1000) or loses the connection first (1006).
SocketClose(B, m, s, code) ==
  /\ \/ sockets[m][s] = "OPEN"
     \/ sockets[m][s] = "CLOSING" /\ code \in {CLOSE_CLEAN} \cup AbnormalCodes
  /\ Commit(B, OnClose([World EXCEPT !.sockets[m][s] = "NONE"], m, code),
            Ev("close", m, code))

\* The transport of socket s fails (a refused or aborted handshake, a lost
\* connection): error event, then close event with an abnormal code.
SocketError(B, m, s, code) ==
  /\ sockets[m][s] \in {"CONNECTING", "OPEN", "ABORTING"}
  /\ Commit(B, OnClose(OnError([World EXCEPT !.sockets[m][s] = "NONE"], m), m, code),
            Ev("error", m, code))

\* The reconnect timer the manager's handle names fires.
ReconnectTimerFires(B, m) ==
  /\ wsm[m].reconnectTimeout = "pending"
  /\ Commit(B, ReconnectCallback([World EXCEPT !.wsm[m].reconnectTimeout = "stale"], m),
            Ev("reconnect", m, 0))

\* A reconnect timer whose handle was overwritten fires.
OrphanTimerFires(B, m) ==
  /\ orphanTimers[m] > 0
  /\ Commit(B, ReconnectCallback([World EXCEPT !.orphanTimers[m] = @ - 1], m),
            Ev("reconnect", m, 1))

\* The 100 ms timer of a teardown fires.
CleanupTimerFires(B, m) ==
  /\ cleanupTimers[m] > 0
  /\ Commit(B, CleanupCallback([World EXCEPT !.cleanupTimers[m] = @ - 1], m),
            Ev("cleanup", m, 0))

InboundTypes == {"auth.success", "ping", "bad", "message"}

\* ---------------------------------------------------------------------
\* The chat store (store/chatStore.ts), one channel.  A list entry keeps
\* what the store's tests read: id, nonce, and the optimistic fields.

\* The optimistic record of sendMessage: its id is the nonce.
OptimisticMessage(nonce) ==
  [id |-> nonce, nonce |-> nonce, optimistic |-> TRUE,
   pending |-> TRUE, failed |-> FALSE]

\* A Message as the server sends it and as handleMessageCreate builds it:
\* no nonce and no pending field.
ServerMessage(id) ==
  [id |-> id, nonce |-> 0, optimistic |-> FALSE,
   pending |-> FALSE, failed |-> FALSE]

\* Server-issued ids: of the message sent with nonce T, of the n-th message
\* of another user.
ServerId(T) == 10 + T
ForeignId(n) == 20 + n

\* isOptimistic(msg): "nonce" in msg && "pending" in msg
IsOptimistic(msg) == msg.optimistic

\* Array.prototype.reverse
Reverse(s) == [k \in 1..Len(s) |-> s[Len(s) + 1 - k]]

\* sendMessage, up to the await: the optimistic record is appended.
SendMessageOptimistic(list, nonce) == Append(list, OptimisticMessage(nonce))

\* Faulty variant of SendMessageSuccess: the record keeps its optimistic
\* fields and takes the server's id.
SendMessageSuccessKeepsPending(list, nonce, response) ==
  [k \in 1..Len(list) |->
     IF IsOptimistic(list[k]) /\ list[k].nonce = nonce
     THEN [list[k] EXCEPT !.id = response.id] ELSE list[k]]

\* sendMessage, the REST call succeeded.
SendMessageSuccess(list, nonce, response) ==
  [k \in 1..Len(list) |->
     IF IsOptimistic(list[k]) /\ list[k].nonce = nonce THEN response ELSE list[k]]

\* Faulty variant of SendMessageFailure: the record is taken off the list.
SendMessageFailureRemoves(list, nonce) ==
  SelectSeq(list, LAMBDA m : ~(IsOptimistic(m) /\ m.nonce = nonce))

\* sendMessage, the REST call failed.
SendMessageFailure(list, nonce) ==
  [k \in 1..Len(list) |->
     IF IsOptimistic(list[k]) /\ list[k].nonce = nonce
     THEN [list[k] EXCEPT !.pending = FALSE, !.failed = TRUE]
     ELSE list[k]]

\* Faulty variant of HandleMessageCreate: the matching optimistic record is
\* taken off the list and the server's record is appended at the end.
HandleMessageCreateAppends(list, payload) ==
  LET exists == \E k \in 1..Len(list) :
                  \/ list[k].id = payload.id
                  \/ IsOptimistic(list[k]) /\ list[k].nonce = payload.nonce
      matches(m) == IsOptimistic(m) /\ m.nonce = payload.nonce
  IN IF exists
     THEN IF \E k \in 1..Len(list) : matches(list[k])
          THEN Append(SelectSeq(list, LAMBDA m : ~matches(m)), ServerMessage(payload.id))
          ELSE list
     ELSE Append(list, ServerMessage(payload.id))

\* handleMessageCreate(payload)
HandleMessageCreate(list, payload) ==
  LET exists == \E k \in 1..Len(list) :
                  \/ list[k].id = payload.id
                  \/ IsOptimistic(list[k]) /\ list[k].nonce = payload.nonce
  IN IF exists
     THEN [k \in 1..Len(list) |->
             IF IsOptimistic(list[k]) /\ list[k].nonce = payload.nonce
             THEN ServerMessage(payload.id)
             ELSE list[k]]
     ELSE Append(list, ServerMessage(payload.id))

\* The server's answer to listMessages: newest first.
ListMessages ==
  Reverse([k \in 1..Len(serverMessages) |-> ServerMessage(serverMessages[k])])

\* loadMessages, the list call succeeded: the channel's list is replaced.
LoadMessages(list, response) == Reverse(response)

\* What a user types into the message box.
Contents == {"hello", "bye"}

\* Faulty variant of DiscardMessage: every optimistic record is removed.
DiscardMessageAll(list, nonce) ==
  SelectSeq(list, LAMBDA m : ~IsOptimistic(m))

\* discardMessage(channelId, nonce)
DiscardMessage(list, nonce) ==
  SelectSeq(list, LAMBDA m : ~(IsOptimistic(m) /\ m.nonce = nonce))

\* The record retryMessage looks for.
HasFailed(list, nonce) ==
  \E k \in 1..Len(list) :
    IsOptimistic(list[k]) /\ list[k].nonce = nonce /\ list[k].failed

\* Task: sendMessage is called and runs to its await.
SendMessageCall ==
  /\ nextNonce <= MaxSends
  /\ messagesByChannel' = SendMessageOptimistic(messagesByChannel, nextNonce)
  /\ restCalls' = [restCalls EXCEPT ![nextNonce] = "sent"]
  /\ nextNonce' = nextNonce + 1
  /\ \E content \in Contents : contents' = [contents EXCEPT ![nextNonce] = content]
  /\ UNCHANGED <<connVars, reactVars, refreshVars, registryVars, serverMessages, foreignCount, inbound, listCall,
                 loadsStarted, arrived, discarded, retryCalls>>

\* The server stores the message of nonce T and broadcasts message.create;
\* echo is whether the event reaches this client's session.
ServerCreates(T, echo) ==
  /\ restCalls[T] = "sent"
  /\ restCalls' = [restCalls EXCEPT ![T] = "processed"]
  /\ serverMessages' = Append(serverMessages, ServerId(T))
  /\ inbound' = IF echo THEN Append(inbound, [id |-> ServerId(T), nonce |-> T])
                ELSE inbound
  /\ UNCHANGED <<connVars, reactVars, refreshVars, registryVars, messagesByChannel, nextNonce, foreignCount, listCall,
                 loadsStarted, arrived, discarded, contents, retryCalls>>

\* The server stores the message sent with nonce T and broadcasts
\* message.create without a nonce (the payload's nonce is optional).
ServerCreatesPlain(T) ==
  /\ restCalls[T] = "sent"
  /\ restCalls' = [restCalls EXCEPT ![T] = "processed"]
  /\ serverMessages' = Append(serverMessages, ServerId(T))
  /\ inbound' = Append(inbound, [id |-> ServerId(T), nonce |-> 0])
  /\ UNCHANGED <<connVars, reactVars, refreshVars, registryVars, messagesByChannel, nextNonce, foreignCount, listCall,
                 loadsStarted, arrived, discarded, contents, retryCalls>>

\* Another user's message is stored and broadcast.
ForeignCreates ==
  /\ foreignCount < MaxForeign
  /\ foreignCount' = foreignCount + 1
  /\ serverMessages' = Append(serverMessages, ForeignId(foreignCount + 1))
  /\ inbound' = Append(inbound, [id |-> ForeignId(foreignCount + 1), nonce |-> 0])
  /\ UNCHANGED <<connVars, reactVars, refreshVars, registryVars, messagesByChannel, nextNonce, restCalls, listCall,
                 loadsStarted, arrived, discarded, contents, retryCalls>>

\* Task: the REST call of nonce T resolves with the server's Message.
SendResolved(T) ==
  /\ restCalls[T] = "processed"
  /\ restCalls' = [restCalls EXCEPT ![T] = "ok"]
  /\ messagesByChannel' =
       SendMessageSuccess(messagesByChannel, T, ServerMessage(ServerId(T)))
  /\ arrived' = arrived \cup {T}
  /\ UNCHANGED <<connVars, reactVars, refreshVars, registryVars, nextNonce, serverMessages, foreignCount, inbound,
                 listCall, loadsStarted, discarded, contents, retryCalls>>

\* Task: the REST call of nonce T rejects, before or after the server
\* stored the message.
SendRejected(T) ==
  /\ restCalls[T] \in {"sent", "processed"}
  /\ restCalls' = [restCalls EXCEPT ![T] = "error"]
  /\ messagesByChannel' = SendMessageFailure(messagesByChannel, T)
  /\ arrived' = arrived \cup {T}
  /\ UNCHANGED <<connVars, reactVars, refreshVars, registryVars, nextNonce, serverMessages, foreignCount, inbound,
                 listCall, loadsStarted, discarded, contents, retryCalls>>

\* Task: the next message.create event is dispatched to the store.
DeliverCreate ==
  /\ inbound # <<>>
  /\ messagesByChannel' = HandleMessageCreate(messagesByChannel, Head(inbound))
  /\ inbound' = Tail(inbound)
  /\ arrived' = IF Head(inbound).nonce # 0 THEN arrived \cup {Head(inbound).nonce}
                ELSE arrived
  /\ UNCHANGED <<connVars, reactVars, refreshVars, registryVars, nextNonce, restCalls, serverMessages, foreignCount,
                 listCall, loadsStarted, discarded, contents, retryCalls>>

\* Task: loadMessages is called and runs to its await.
LoadMessagesCall ==
  /\ listCall.state = "idle"
  /\ loadsStarted < MaxLoads
  /\ listCall' = [state |-> "requested", response |-> <<>>]
  /\ loadsStarted' = loadsStarted + 1
  /\ UNCHANGED <<connVars, reactVars, refreshVars, registryVars, messagesByChannel, nextNonce, restCalls,
                 serverMessages, foreignCount, inbound, arrived, discarded, contents, retryCalls>>

\* The server answers the list call with what it holds at that moment.
ListAnswered ==
  /\ listCall.state = "requested"
  /\ listCall' = [state |-> "answered", response |-> ListMessages]
  /\ UNCHANGED <<connVars, reactVars, refreshVars, registryVars, messagesByChannel, nextNonce, restCalls,
                 serverMessages, foreignCount, inbound, loadsStarted, arrived,
                 discarded, contents, retryCalls>>

\* Task: loadMessages resumes with the answer.
LoadMessagesDone ==
  /\ listCall.state = "answered"
  /\ messagesByChannel' = LoadMessages(messagesByChannel, listCall.response)
  /\ listCall' = [state |-> "idle", response |-> <<>>]
  /\ UNCHANGED <<connVars, reactVars, refreshVars, registryVars, nextNonce, restCalls, serverMessages, foreignCount,
                 inbound, loadsStarted, arrived, discarded, contents, retryCalls>>

\* Task: discardMessage(channelId, T), offered on a failed record.
DiscardCall(T) ==
  /\ HasFailed(messagesByChannel, T)
  /\ messagesByChannel' = DiscardMessage(messagesByChannel, T)
  /\ discarded' = discarded \cup {T}
  /\ UNCHANGED <<connVars, reactVars, refreshVars, registryVars, nextNonce, restCalls, serverMessages, foreignCount,
                 inbound, listCall, loadsStarted, arrived, contents, retryCalls>>

\* Task: retryMessage(channelId, T), whatever the list holds: without a
\* failed record of T it returns at once; with one it calls discardMessage
\* and then sendMessage with the record's content, which runs to its await.
RetryMessageCall(T) ==
  /\ Len(retryCalls) < MaxRetries
  /\ retryCalls' = Append(retryCalls, T)
  /\ IF HasFailed(messagesByChannel, T)
     THEN /\ nextNonce <= MaxSends
          /\ messagesByChannel' =
               SendMessageOptimistic(DiscardMessage(messagesByChannel, T), nextNonce)
          /\ restCalls' = [restCalls EXCEPT ![nextNonce] = "sent"]
          /\ nextNonce' = nextNonce + 1
          /\ discarded' = discarded \cup {T}
          /\ contents' = [contents EXCEPT ![nextNonce] = contents[T]]
     ELSE UNCHANGED <<messagesByChannel, restCalls, nextNonce, discarded, contents>>
  /\ UNCHANGED <<connVars, reactVars, refreshVars, registryVars, serverMessages, foreignCount, inbound, listCall,
                 loadsStarted, arrived>>

\* Task: retryMessage(channelId, T) that finds the failed record: discard,
\* then sendMessage to its await.  Without that record it returns at once.
RetryCall(T) ==
  /\ HasFailed(messagesByChannel, T)
  /\ nextNonce <= MaxSends
  /\ messagesByChannel' =
       SendMessageOptimistic(DiscardMessage(messagesByChannel, T), nextNonce)
  /\ restCalls' = [restCalls EXCEPT ![nextNonce] = "sent"]
  /\ nextNonce' = nextNonce + 1
  /\ discarded' = discarded \cup {T}
  /\ contents' = [contents EXCEPT ![nextNonce] = contents[T]]
  /\ UNCHANGED <<connVars, reactVars, refreshVars, registryVars, serverMessages, foreignCount, inbound, listCall,
                 loadsStarted, arrived, retryCalls>>

\* ---------------------------------------------------------------------
\* Reactions of one message of the chat store.  A reaction entry is
\* [emoji, count, users, has_reacted]; users is an array of usernames.

Usernames == {"me", "other"}
CurrentUser == "me"
Emojis == {"a", "b"}

\* reactions.findIndex((r) => r.emoji === emoji), 0 for -1
FindIndex(list, emoji) ==
  IF \E k \in 1..Len(list) : list[k].emoji = emoji
  THEN CHOOSE k \in 1..Len(list) :
         /\ list[k].emoji = emoji
         /\ \A j \in 1..Len(list) : list[j].emoji = emoji => k <= j
  ELSE 0

\* users.includes(username)
Includes(users, username) == \E k \in 1..Len(users) : users[k] = username

\* users.filter((u) => u !== username)
WithoutUser(users, username) == SelectSeq(users, LAMBDA u : u # username)

\* reactions.splice(idx, 1)
Splice(list, idx) == SubSeq(list, 1, idx - 1) \o SubSeq(list, idx + 1, Len(list))

\* Faulty variant of HandleReactionAdd: a user the entry lists already is
\* counted again.
HandleReactionAddAgain(list, emoji, username) ==
  LET idx == FindIndex(list, emoji) IN
  IF idx > 0
  THEN [list EXCEPT ![idx] =
          [@ EXCEPT !.count = @ + 1,
                    !.users = IF Includes(@, username) THEN @ ELSE Append(@, username),
                    !.has_reacted = @ \/ username = CurrentUser]]
  ELSE Append(list, [emoji |-> emoji, count |-> 1, users |-> <<username>>,
                     has_reacted |-> username = CurrentUser])

\* handleReactionAdd(payload), on the reaction list of the message
HandleReactionAdd(list, emoji, username) ==
  LET idx == FindIndex(list, emoji) IN
  IF idx > 0
  THEN IF Includes(list[idx].users, username) THEN list
       ELSE [list EXCEPT ![idx] =
               [@ EXCEPT !.count = @ + 1,
                         !.users = Append(@, username),
                         !.has_reacted = @ \/ username = CurrentUser]]
  ELSE Append(list, [emoji |-> emoji, count |-> 1, users |-> <<username>>,
                     has_reacted |-> username = CurrentUser])

\* Faulty variant of HandleReactionRemove: an emptied entry is kept.
HandleReactionRemoveKeeps(list, emoji, username) ==
  [k \in 1..Len(list) |->
     IF list[k].emoji # emoji THEN list[k]
     ELSE [list[k] EXCEPT
             !.count = Len(WithoutUser(list[k].users, username)),
             !.users = WithoutUser(list[k].users, username),
             !.has_reacted = IF username = CurrentUser THEN FALSE ELSE @]]

\* handleReactionRemove(payload), on the reaction list of the message
HandleReactionRemove(list, emoji, username) ==
  SelectSeq(
    [k \in 1..Len(list) |->
       IF list[k].emoji # emoji THEN list[k]
       ELSE [list[k] EXCEPT
               !.count = Len(WithoutUser(list[k].users, username)),
               !.users = WithoutUser(list[k].users, username),
               !.has_reacted = IF username = CurrentUser THEN FALSE ELSE @]],
    LAMBDA r : r.users # <<>>)

\* toggleReaction(messageId, emoji), after the await: result.added says
\* what the server did.
ToggleReaction(list, emoji, added) ==
  LET idx == FindIndex(list, emoji) IN
  IF added
  THEN IF idx > 0
       THEN IF Includes(list[idx].users, CurrentUser) THEN list
            ELSE [list EXCEPT ![idx] =
                    [@ EXCEPT !.count = @ + 1,
                              !.users = Append(@, CurrentUser),
                              !.has_reacted = TRUE]]
       ELSE Append(list, [emoji |-> emoji, count |-> 1,
                          users |-> <<CurrentUser>>, has_reacted |-> TRUE])
  ELSE IF idx = 0 THEN list
       ELSE IF WithoutUser(list[idx].users, CurrentUser) = <<>>
            THEN Splice(list, idx)
            ELSE [list EXCEPT ![idx] =
                    [@ EXCEPT !.count = Len(WithoutUser(list[idx].users, CurrentUser)),
                              !.users = WithoutUser(list[idx].users, CurrentUser),
                              !.has_reacted = FALSE]]

\* The removal of username from emoji takes the last user of an entry away.
TakesLastUser(list, emoji, username) ==
  \E k \in 1..Len(list) :
    /\ list[k].emoji = emoji
    /\ Includes(list[k].users, username)
    /\ WithoutUser(list[k].users, username) = <<>>

\* What the server does with a reaction of user u with emoji e: it flips
\* it and broadcasts the change.
ServerFlip(u, e) ==
  /\ serverReactions' =
       IF <<u, e>> \in serverReactions THEN serverReactions \ {<<u, e>>}
       ELSE serverReactions \cup {<<u, e>>}
  /\ reactionEvents' =
       Append(reactionEvents,
              [type |-> IF <<u, e>> \in serverReactions THEN "reaction.remove"
                        ELSE "reaction.add",
               emoji |-> e, username |-> u])
  /\ reactionOps' = reactionOps + 1

\* Task: toggleReaction(messageId, e) is called and runs to its await.
ToggleReactionCall(e) ==
  /\ reactionOps + Len(SelectSeq(toggleCalls, LAMBDA c : c.state = "sent"))
       < MaxReactionOps
  /\ toggleCalls' = Append(toggleCalls, [emoji |-> e, state |-> "sent", added |-> FALSE])
  /\ lastReaction' = [op |-> "toggleReaction", emoji |-> e,
                      username |-> CurrentUser, emptied |-> FALSE]
  /\ UNCHANGED <<connVars, chatVars, refreshVars, registryVars, reactions, serverReactions, reactionOps,
                 reactionEvents>>

\* The server handles the k-th toggle call.
ServerToggles(k) ==
  /\ k \in 1..Len(toggleCalls) /\ toggleCalls[k].state = "sent"
  /\ ServerFlip(CurrentUser, toggleCalls[k].emoji)
  /\ toggleCalls' =
       [toggleCalls EXCEPT ![k] =
          [@ EXCEPT !.state = "answered",
                    !.added = <<CurrentUser, toggleCalls[k].emoji>> \notin serverReactions]]
  /\ UNCHANGED <<connVars, chatVars, refreshVars, registryVars, reactions, lastReaction>>

\* Another user reacts with e, or takes that reaction back.
OtherReacts(e) ==
  /\ reactionOps + Len(SelectSeq(toggleCalls, LAMBDA c : c.state = "sent"))
       < MaxReactionOps
  /\ ServerFlip("other", e)
  /\ UNCHANGED <<connVars, chatVars, refreshVars, registryVars, reactions, toggleCalls, lastReaction>>

\* Task: the k-th toggle call resolves and toggleReaction resumes.
ToggleReactionDone(k) ==
  /\ k \in 1..Len(toggleCalls) /\ toggleCalls[k].state = "answered"
  /\ reactions' = ToggleReaction(reactions, toggleCalls[k].emoji, toggleCalls[k].added)
  /\ toggleCalls' = Splice(toggleCalls, k)
  /\ lastReaction' =
       [op |-> IF toggleCalls[k].added THEN "toggle.added" ELSE "toggle.removed",
        emoji |-> toggleCalls[k].emoji, username |-> CurrentUser,
        emptied |-> /\ ~toggleCalls[k].added
                    /\ TakesLastUser(reactions, toggleCalls[k].emoji, CurrentUser)]
  /\ UNCHANGED <<connVars, chatVars, refreshVars, registryVars, serverReactions, reactionOps, reactionEvents>>

\* Task: the next reaction event is dispatched to the store.
DeliverReaction ==
  /\ reactionEvents # <<>>
  /\ LET ev == Head(reactionEvents) IN
       /\ reactions' =
            IF ev.type = "reaction.add"
            THEN HandleReactionAdd(reactions, ev.emoji, ev.username)
            ELSE HandleReactionRemove(reactions, ev.emoji, ev.username)
       /\ lastReaction' =
            [op |-> ev.type, emoji |-> ev.emoji, username |-> ev.username,
             emptied |-> /\ ev.type = "reaction.remove"
                         /\ TakesLastUser(reactions, ev.emoji, ev.username)]
  /\ reactionEvents' = Tail(reactionEvents)
  /\ UNCHANGED <<connVars, chatVars, refreshVars, registryVars, serverReactions, reactionOps, toggleCalls>>

\* ---------------------------------------------------------------------
\* The token refresh of one instance: ApiClient.tryRefreshToken (the REST
\* client's answer to a 401), getValidToken (the WebSocketManager's
\* connect) and the auth store's refreshAccessToken, which both call.

NoCredentials == [accessToken |-> FALSE, refreshToken |-> FALSE, expired |-> FALSE]

\* refreshAccessToken(), up to its await: without a refresh token it
\* returns false, with one it posts /auth/refresh for the caller.
RefreshAccessTokenPosts == credentials.refreshToken

\* refreshAccessToken() after the await: the new credentials are stored
\* (ok), or clearAuth() (failure).
RefreshAccessTokenDone(ok) ==
  IF ok THEN [accessToken |-> TRUE, refreshToken |-> TRUE, expired |-> FALSE]
  ELSE NoCredentials

\* Task: a REST request is answered 401 and calls tryRefreshToken(): it
\* takes the memoized promise, or creates it; the body of a new promise
\* runs to "await import".
Request401 ==
  /\ refreshCalls.rest < MaxRest401
  /\ refreshCalls' = [refreshCalls EXCEPT !.rest = @ + 1]
  /\ refreshPromise' = IF refreshPromise = "null" THEN "importing" ELSE refreshPromise
  /\ refreshWaiters' = refreshWaiters + 1
  /\ UNCHANGED <<connVars, chatVars, reactVars, registryVars, credentials, pendingRefresh,
                 tokenVersion, tokenCalls>>

\* Task: the body of the memoized promise resumes after the import and
\* calls refreshAccessToken() when the store has a refresh token; when it
\* returns false the finally block clears the memo.
RefreshImported ==
  /\ refreshPromise = "importing"
  /\ IF RefreshAccessTokenPosts
     THEN /\ refreshPromise' = "refreshing"
          /\ pendingRefresh' = [pendingRefresh EXCEPT !.rest = @ + 1]
          /\ UNCHANGED refreshWaiters
     ELSE /\ refreshPromise' = "null"
          /\ refreshWaiters' = 0
          /\ UNCHANGED pendingRefresh
  /\ UNCHANGED <<connVars, chatVars, reactVars, registryVars, credentials, refreshCalls,
                 tokenVersion, tokenCalls>>

\* isTokenExpired(expiresAt): no expiry stored, or now is at or past the
\* expiry minus 30 s.
IsTokenExpired(c) == c.expired

\* getValidToken(), up to its return or its await.  The call is recorded
\* with what it found (the stored token, 0 for none; whether it was
\* expired), whether it called refreshAccessToken(), and the token it
\* returned to connect() (0: null, no socket is opened).
GetValidToken(c, version) ==
  LET found == [at |-> IF c.accessToken THEN version ELSE 0,
                expired |-> c.accessToken /\ IsTokenExpired(c)]
  IN IF ~c.accessToken
     THEN found @@ [requested |-> FALSE, state |-> "returned", token |-> 0]
     ELSE IF IsTokenExpired(c)
     THEN IF c.refreshToken
          THEN found @@ [requested |-> TRUE, state |-> "refreshing", token |-> 0]
          ELSE found @@ [requested |-> TRUE, state |-> "returned", token |-> 0]
     ELSE found @@ [requested |-> FALSE, state |-> "returned", token |-> version]

\* Faulty variant of GetValidTokenResume: the token read before the
\* refresh is returned.
GetValidTokenResumeStale(call, refreshed, version) ==
  [call EXCEPT !.state = "returned",
               !.token = IF refreshed THEN call.at ELSE 0]

\* getValidToken() after the await of refreshAccessToken(): null when the
\* refresh failed, the token now stored otherwise.
GetValidTokenResume(call, refreshed, version) ==
  [call EXCEPT !.state = "returned",
               !.token = IF refreshed THEN version ELSE 0]

\* Task: connect() calls getValidToken(): with an expired access token it
\* calls refreshAccessToken() of the auth store.
GetValidTokenCall ==
  /\ refreshCalls.ws < MaxTokenCalls
  /\ refreshCalls' = [refreshCalls EXCEPT !.ws = @ + 1]
  /\ pendingRefresh' =
       IF credentials.accessToken /\ credentials.expired /\ RefreshAccessTokenPosts
       THEN [pendingRefresh EXCEPT !.ws = @ + 1]
       ELSE pendingRefresh
  /\ tokenCalls' = Append(tokenCalls, GetValidToken(credentials, tokenVersion))
  /\ UNCHANGED <<connVars, chatVars, reactVars, registryVars, credentials, refreshPromise,
                 refreshWaiters, tokenVersion>>

\* Task: a POST /auth/refresh of the given caller is answered and its
\* refreshAccessToken() resumes; the REST client's then settles the
\* memoized promise and clears the memo.
RefreshAnswered(caller, ok) ==
  /\ pendingRefresh[caller] > 0
  /\ pendingRefresh' = [pendingRefresh EXCEPT ![caller] = @ - 1]
  /\ credentials' = RefreshAccessTokenDone(ok)
  /\ tokenVersion' = IF ok THEN tokenVersion + 1 ELSE tokenVersion
  /\ IF caller = "ws"
     THEN \E k \in 1..Len(tokenCalls) :
            /\ tokenCalls[k].state = "refreshing"
            /\ tokenCalls' = [tokenCalls EXCEPT
                                ![k] = GetValidTokenResume(@, ok, tokenVersion')]
     ELSE UNCHANGED tokenCalls
  /\ IF caller = "rest"
     THEN refreshPromise' = "null" /\ refreshWaiters' = 0
     ELSE UNCHANGED <<refreshPromise, refreshWaiters>>
  /\ UNCHANGED <<connVars, chatVars, reactVars, registryVars, refreshCalls>>

\* Time passes: the access token comes within 30 s of its expiry.
TokenExpires ==
  /\ credentials.accessToken /\ ~credentials.expired
  /\ credentials' = [credentials EXCEPT !.expired = TRUE]
  /\ UNCHANGED <<connVars, chatVars, reactVars, registryVars, refreshPromise, refreshWaiters,
                 pendingRefresh, refreshCalls, tokenVersion, tokenCalls>>

\* ---------------------------------------------------------------------
\* The registry of instance-scoped stores (createInstanceAwareStore), as
\* chatStores uses it.  A container is an object of its own: the registry
\* maps an instance id to one, and a caller that got one keeps it.

Containers == 1..MaxContainers
NoContainer == [none |-> TRUE]

\* create(createStoreFn(instanceId)): a store in its initial state
CreateStore(id) == [instanceId |-> id, value |-> 0]

\* The object a construction yields: one that does not exist yet.
FreshContainer(R) ==
  CHOOSE c \in Containers :
    /\ R.containers[c] = NoContainer
    /\ \A d \in Containers : R.containers[d] = NoContainer => c <= d

\* The registry and the containers, as one record.
Registry ==
  [stores |-> stores, containers |-> containers, factoryCalls |-> factoryCalls,
   result |-> 0]

\* Faulty variant of RegistryGet: no look-up before the construction.
RegistryGetAlwaysCreates(R, id) ==
  [R EXCEPT !.stores[id] = FreshContainer(R),
            !.containers[FreshContainer(R)] = CreateStore(id),
            !.factoryCalls[id] = @ + 1,
            !.result = FreshContainer(R)]

\* get(instanceId)
RegistryGet(R, id) ==
  IF R.stores[id] # 0 THEN [R EXCEPT !.result = R.stores[id]]
  ELSE [R EXCEPT !.stores[id] = FreshContainer(R),
                 !.containers[FreshContainer(R)] = CreateStore(id),
                 !.factoryCalls[id] = @ + 1,
                 !.result = FreshContainer(R)]

\* Faulty variant of RegistryClear: every entry is deleted.
RegistryClearDropsAll(R, id) ==
  [R EXCEPT !.stores = [j \in InstanceIds |-> 0],
            !.factoryCalls = [j \in InstanceIds |-> 0]]

\* clear(instanceId)
RegistryClear(R, id) ==
  [R EXCEPT !.stores[id] = 0, !.factoryCalls[id] = 0]

\* clearAll()
RegistryClearAll(R) ==
  [R EXCEPT !.stores = [j \in InstanceIds |-> 0],
            !.factoryCalls = [j \in InstanceIds |-> 0]]

\* What a registry operation leaves behind.
RegistryCommit(R, op, id) ==
  /\ stores' = R.stores
  /\ containers' = R.containers
  /\ factoryCalls' = R.factoryCalls
  /\ lastRegistry' = [op |-> op, id |-> id, container |-> R.result]
  /\ UNCHANGED <<connVars, chatVars, reactVars, refreshVars>>

\* A caller invokes chatStores.get(id), while a construction is possible.
RegistryGetCall(id) ==
  /\ \E c \in Containers : containers[c] = NoContainer
  /\ RegistryCommit(RegistryGet(Registry, id), "get", id)

\* A caller invokes chatStores.clear(id).
RegistryClearCall(id) ==
  RegistryCommit(RegistryClear(Registry, id), "clear", id)

\* A caller invokes chatStores.clearAll().
RegistryClearAllCall ==
  RegistryCommit(RegistryClearAll(Registry), "clearAll", "i1")

\* A caller changes the state of container c, which it got from the
\* registry at some time (setState of that store).
MutateContainer(c) ==
  /\ containers[c] # NoContainer
  /\ containers[c].value < MaxValue
  /\ RegistryCommit([Registry EXCEPT !.containers[c].value = @ + 1,
                                     !.result = c],
                    "mutate", containers[c].instanceId)

InitRest ==
  /\ wsm = [m \in InstanceIds |-> Unused]
  /\ sockets = [m \in InstanceIds |-> [s \in Slots |-> "NONE"]]
  /\ awaitingToken = [m \in InstanceIds |-> 0]
  /\ cleanupTimers = [m \in InstanceIds |-> 0]
  /\ orphanTimers = [m \in InstanceIds |-> 0]
  /\ connections = [i \in InstanceIds |-> NoConn]
  /\ instStatus = [i \in InstanceIds |-> "disconnected"]
  /\ presenceConnected = [i \in InstanceIds |-> FALSE]
  /\ wire = [i \in InstanceIds |-> <<>>]
  /\ nextId = 1
  /\ everQueued = {}
  /\ dropped = {}
  /\ closesSinceReset = [m \in InstanceIds |-> 0]
  /\ scheduledDelay = [m \in InstanceIds |-> 0]
  /\ frameNo = [m \in InstanceIds |-> 0]
  /\ dispatched = [i \in InstanceIds |-> <<>>]
  /\ activeInstanceId = "none"
  /\ switching = <<>>
  /\ switchCount = 0
  /\ voice = VoiceInitialState
  /\ scenarioA = 0
  /\ last = [op |-> "init", m |-> "i1", code |-> 0, subs |-> 0, handled |-> 0]
  /\ messagesByChannel = <<>>
  /\ nextNonce = 1
  /\ restCalls = [T \in 1..MaxSends |-> "idle"]
  /\ serverMessages = <<>>
  /\ foreignCount = 0
  /\ inbound = <<>>
  /\ listCall = [state |-> "idle", response |-> <<>>]
  /\ loadsStarted = 0
  /\ arrived = {}
  /\ discarded = {}
  /\ contents = [T \in 1..MaxSends |-> "none"]
  /\ retryCalls = <<>>
  /\ reactions = <<>>
  /\ serverReactions = {}
  /\ reactionOps = 0
  /\ toggleCalls = <<>>
  /\ reactionEvents = <<>>
  /\ lastReaction = [op |-> "init", emoji |-> "a", username |-> CurrentUser,
                     emptied |-> FALSE]
  /\ credentials = [accessToken |-> TRUE, refreshToken |-> TRUE, expired |-> FALSE]
  /\ refreshPromise = "null"
  /\ refreshWaiters = 0
  /\ pendingRefresh = [rest |-> 0, ws |-> 0]
  /\ refreshCalls = [rest |-> 0, ws |-> 0]
  /\ tokenVersion = 1
  /\ tokenCalls = <<>>
  /\ stores = [id \in InstanceIds |-> 0]
  /\ containers = [c \in Containers |-> NoContainer]
  /\ factoryCalls = [id \in InstanceIds |-> 0]
  /\ lastRegistry = [op |-> "init", id |-> "i1", container |-> 0]

\* One configured instance.
Init ==
  /\ instances = {"i1"}
  /\ InitRest

\* Two configured instances.
InitTwo ==
  /\ instances = InstanceIds
  /\ InitRest

\* The lifecycle of an instance's connection: every task but send().
Next ==
  \/ \E i \in instances, u \in UserIds : CallConnect(LifeBounds, i, u)
  \/ \E i \in instances : CallDisconnect(LifeBounds, i)
  \/ \E m \in instances, hasToken \in BOOLEAN : TokenResolved(LifeBounds, m, hasToken)
  \/ \E m \in instances, s \in Slots : SocketOpen(LifeBounds, m, s)
  \/ \E m \in instances, s \in Slots, type \in InboundTypes :
        SocketMessage(LifeBounds, m, s, type)
  \/ \E m \in instances, s \in Slots, code \in CloseCodes :
        SocketClose(LifeBounds, m, s, code)
  \/ \E m \in instances, s \in Slots, code \in AbnormalCodes :
        SocketError(LifeBounds, m, s, code)
  \/ \E m \in instances : ReconnectTimerFires(LifeBounds, m)
  \/ \E m \in instances : OrphanTimerFires(LifeBounds, m)
  \/ \E m \in instances : CleanupTimerFires(LifeBounds, m)

Spec == Init /\ [][Next]_vars

\* The outbound queue: every task, send() included.
NextQueue ==
  \/ \E i \in instances, u \in UserIds : CallConnect(QueueBounds, i, u)
  \/ \E i \in instances : CallDisconnect(QueueBounds, i)
  \/ \E i \in instances : CallSend(QueueBounds, i)
  \/ \E m \in instances, hasToken \in BOOLEAN : TokenResolved(QueueBounds, m, hasToken)
  \/ \E m \in instances, s \in Slots : SocketOpen(QueueBounds, m, s)
  \/ \E m \in instances, s \in Slots, type \in InboundTypes :
        SocketMessage(QueueBounds, m, s, type)
  \/ \E m \in instances, s \in Slots, code \in CloseCodes :
        SocketClose(QueueBounds, m, s, code)
  \/ \E m \in instances, s \in Slots, code \in AbnormalCodes :
        SocketError(QueueBounds, m, s, code)
  \/ \E m \in instances : ReconnectTimerFires(QueueBounds, m)
  \/ \E m \in instances : OrphanTimerFires(QueueBounds, m)
  \/ \E m \in instances : CleanupTimerFires(QueueBounds, m)

SpecQueue == Init /\ [][NextQueue]_vars

\* The chat store: sends, their REST responses, inbound create events,
\* list loads, discard and retry.
NextChat ==
  \/ SendMessageCall
  \/ \E T \in 1..MaxSends, echo \in BOOLEAN : ServerCreates(T, echo)
  \/ ForeignCreates
  \/ \E T \in 1..MaxSends : SendResolved(T)
  \/ \E T \in 1..MaxSends : SendRejected(T)
  \/ DeliverCreate
  \/ LoadMessagesCall
  \/ ListAnswered
  \/ LoadMessagesDone
  \/ \E T \in 1..MaxSends : DiscardCall(T)
  \/ \E T \in 1..MaxSends : RetryCall(T)

SpecChat == Init /\ [][NextChat]_vars

\* Sends and the message.create events of the server, with the nonce of
\* the send or without one.
NextEvents ==
  \/ SendMessageCall
  \/ \E T \in 1..MaxSends, echo \in BOOLEAN : ServerCreates(T, echo)
  \/ \E T \in 1..MaxSends : ServerCreatesPlain(T)
  \/ ForeignCreates
  \/ \E T \in 1..MaxSends : SendResolved(T)
  \/ \E T \in 1..MaxSends : SendRejected(T)
  \/ DeliverCreate

SpecEvents == Init /\ [][NextEvents]_vars

\* Sends that fail or succeed, and the user's retry and discard.
NextRetry ==
  \/ SendMessageCall
  \/ \E T \in 1..MaxSends, echo \in BOOLEAN : ServerCreates(T, echo)
  \/ ForeignCreates
  \/ \E T \in 1..MaxSends : SendResolved(T)
  \/ \E T \in 1..MaxSends : SendRejected(T)
  \/ DeliverCreate
  \/ \E T \in 1..MaxSends : DiscardCall(T)
  \/ \E T \in 1..MaxSends : RetryMessageCall(T)

SpecRetry == Init /\ [][NextRetry]_vars

\* The inbound frames of two instances, numbered per instance as their
\* sockets deliver them.
NextDispatch ==
  \/ \E i \in instances, u \in {"u1"} : CallConnect(DispatchBounds, i, u)
  \/ \E m \in instances : TokenResolved(DispatchBounds, m, TRUE)
  \/ \E m \in instances, s \in Slots : SocketOpen(DispatchBounds, m, s)
  \/ \E m \in instances, s \in Slots, type \in InboundTypes \ {"ping"} :
        SocketMessage(DispatchBounds, m, s, type)
  \/ \E m \in instances, s \in Slots, code \in AbnormalCodes :
        SocketClose(DispatchBounds, m, s, code)
  \/ \E m \in instances : ReconnectTimerFires(DispatchBounds, m)

SpecDispatch == InitTwo /\ [][NextDispatch]_vars

\* Switching between two instances.  A suspended switchInstance call
\* resumes in a microtask, so no socket or timer task runs before it; the
\* calls of the running task may.  The instances are connected through
\* switchInstance alone.  With one socket to a manager every reconnect
\* timer is the one the manager's handle names.
NoMicrotask == switching = <<>>

NextSwitch ==
  \/ \E i \in instances, u \in {"u1"} : CallSwitchInstance(SwitchBounds, i, u)
  \/ SwitchResumes(SwitchBounds)
  \/ \E i \in instances : CallDisconnect(SwitchBounds, i)
  \/ \E m \in instances, hasToken \in BOOLEAN :
        NoMicrotask /\ TokenResolved(SwitchBounds, m, hasToken)
  \/ \E m \in instances, s \in Slots :
        NoMicrotask /\ SocketOpen(SwitchBounds, m, s)
  \/ \E m \in instances, s \in Slots, type \in {"auth.success"} :
        NoMicrotask /\ SocketMessage(SwitchBounds, m, s, type)
  \/ \E m \in instances, s \in Slots, code \in CloseCodes :
        NoMicrotask /\ SocketClose(SwitchBounds, m, s, code)
  \/ \E m \in instances, s \in Slots, code \in AbnormalCodes :
        NoMicrotask /\ SocketError(SwitchBounds, m, s, code)
  \/ \E m \in instances : NoMicrotask /\ ReconnectTimerFires(SwitchBounds, m)
  \/ \E m \in instances : NoMicrotask /\ CleanupTimerFires(SwitchBounds, m)

SpecSwitch == InitTwo /\ [][NextSwitch]_vars

\* The token refresh of an instance: both of its callers.
NextRefresh ==
  \/ Request401
  \/ RefreshImported
  \/ GetValidTokenCall
  \/ \E caller \in {"rest", "ws"}, ok \in BOOLEAN : RefreshAnswered(caller, ok)
  \/ TokenExpires

SpecRefresh == Init /\ [][NextRefresh]_vars

\* The registry of chat stores and the containers callers hold.
NextRegistry ==
  \/ \E id \in InstanceIds : RegistryGetCall(id)
  \/ \E id \in InstanceIds : RegistryClearCall(id)
  \/ RegistryClearAllCall
  \/ \E c \in Containers : MutateContainer(c)

SpecRegistry == Init /\ [][NextRegistry]_vars

\* Two instances connected side by side, with every failure of a session:
\* no token, a transport error, a close with any code.
NextIsolation ==
  \/ \E i \in instances, u \in {"u1"} : CallConnect(SwitchBounds, i, u)
  \/ \E m \in instances, hasToken \in BOOLEAN : TokenResolved(SwitchBounds, m, hasToken)
  \/ \E m \in instances, s \in Slots : SocketOpen(SwitchBounds, m, s)
  \/ \E m \in instances, s \in Slots : SocketMessage(SwitchBounds, m, s, "auth.success")
  \/ \E m \in instances, s \in Slots, code \in CloseCodes :
        SocketClose(SwitchBounds, m, s, code)
  \/ \E m \in instances, s \in Slots, code \in AbnormalCodes :
        SocketError(SwitchBounds, m, s, code)
  \/ \E m \in instances : ReconnectTimerFires(SwitchBounds, m)

SpecIsolation == InitTwo /\ [][NextIsolation]_vars

\* What the runtime does on its own for instance i1: a token promise
\* settles, a handshake completes or fails, the server confirms the
\* session, a socket closes, a timer fires.
TokenSettles == \E hasToken \in BOOLEAN : TokenResolved(SwitchBounds, "i1", hasToken)
HandshakeCompletes == \E s \in Slots : SocketOpen(SwitchBounds, "i1", s)
ServerConfirms == \E s \in Slots : SocketMessage(SwitchBounds, "i1", s, "auth.success")
SocketCloses == \E s \in Slots, code \in CloseCodes : SocketClose(SwitchBounds, "i1", s, code)
SocketFails == \E s \in Slots, code \in AbnormalCodes : SocketError(SwitchBounds, "i1", s, code)
TimerFires ==
  \/ ReconnectTimerFires(SwitchBounds, "i1")
  \/ CleanupTimerFires(SwitchBounds, "i1")

\* One instance with its callers; every promise settles, every handshake
\* ends, the server confirms a session that stays open, timers fire.
NextLive ==
  \/ CallConnect(SwitchBounds, "i1", "u1")
  \/ CallDisconnect(SwitchBounds, "i1")
  \/ TokenSettles
  \/ HandshakeCompletes
  \/ ServerConfirms
  \/ SocketCloses
  \/ SocketFails
  \/ TimerFires

\* One instance that is connected, whose chat store is used, and that the
\* user removes.
NextRemove ==
  \/ \E i \in instances : CallConnect(SwitchBounds, i, "u1")
  \/ TokenResolved(SwitchBounds, "i1", TRUE)
  \/ \E s \in Slots : SocketOpen(SwitchBounds, "i1", s)
  \/ \E s \in Slots : SocketMessage(SwitchBounds, "i1", s, "auth.success")
  \/ \E s \in Slots, code \in AbnormalCodes : SocketError(SwitchBounds, "i1", s, code)
  \/ ReconnectTimerFires(SwitchBounds, "i1")
  \/ RegistryGetCall("i1")
  \/ \E c \in Containers : MutateContainer(c)
  \/ RemoveInstance("i1")

SpecRemove == Init /\ [][NextRemove]_vars

SpecLive ==
  /\ Init /\ [][NextLive]_vars
  /\ WF_vars(TokenSettles)
  /\ WF_vars(HandshakeCompletes \/ SocketFails)
  /\ WF_vars(ServerConfirms)
  /\ WF_vars(SocketCloses)
  /\ WF_vars(TimerFires)

\* The lifecycle of an instance's connection beside a voice session, which
\* this instance or another one hosts.
NextVoice ==
  \/ Next
  \/ \E v \in InstanceIds : VoiceJoins(LifeBounds, v)
  \/ VoiceLeaves(LifeBounds)

SpecVoice == Init /\ [][NextVoice]_vars

\* Scenario A: the connection of an instance with its failures and
\* reconnects, one typing.start handed to send(), and one sendMessage over
\* REST, called while the connection is not open.
NextScenario ==
  \/ CallConnect(ScenarioBounds, "i1", "u1")
  \/ CallSend(ScenarioBounds, "i1")
  \/ TokenResolved(ScenarioBounds, "i1", TRUE)
  \/ \E s \in Slots : SocketOpen(ScenarioBounds, "i1", s)
  \/ \E s \in Slots : SocketMessage(ScenarioBounds, "i1", s, "auth.success")
  \/ \E s \in Slots, code \in AbnormalCodes : SocketError(ScenarioBounds, "i1", s, code)
  \/ ReconnectTimerFires(ScenarioBounds, "i1")
  \/ nextNonce = 1 /\ ~IsOpen(World, "i1") /\ SendMessageCall
  \/ \E echo \in BOOLEAN : ServerCreates(1, echo)
  \/ SendResolved(1)
  \/ SendRejected(1)
  \/ DeliverCreate

SpecScenario == Init /\ [][NextScenario]_vars

\* The reactions of a message: local toggles, other users, their events.
NextReact ==
  \/ \E e \in Emojis : ToggleReactionCall(e)
  \/ \E k \in 1..MaxReactionOps : ServerToggles(k)
  \/ \E e \in Emojis : OtherReacts(e)
  \/ \E k \in 1..MaxReactionOps : ToggleReactionDone(k)
  \/ DeliverReaction

SpecReact == Init /\ [][NextReact]_vars


\* ----------------------------------------------------------------- claims

\* Reconnect timers of instance m that are pending, tracked or not.
PendingReconnects(m) ==
  orphanTimers[m] + (IF wsm[m].reconnectTimeout = "pending" THEN 1 ELSE 0)

\* The same, after the step.
PendingReconnectsNext(m) ==
  orphanTimers'[m] + (IF wsm'[m].reconnectTimeout = "pending" THEN 1 ELSE 0)

\* No connect attempt starts and no socket is created in the step.
NoConnectStarted(m) ==
  /\ awaitingToken'[m] = awaitingToken[m]
  /\ wsm'[m].isConnecting => wsm[m].isConnecting
  /\ \A s \in Slots : sockets'[m][s] = "CONNECTING" => sockets[m][s] = "CONNECTING"

\* C1: for every instance, in every reachable state, at most one socket
\* created by that instance's Connection is CONNECTING or OPEN.
C1_AtMostOneLiveSocket ==
  \A i \in InstanceIds : Cardinality(LiveSockets(World, i)) <= 1

\* C6: a close event with code 1000 or 4000 schedules no reconnect timer
\* and starts no connect attempt, whatever the subscriber count is.
C6_CleanCloseNeverReconnects ==
  [][(last'.op = "close" /\ last'.code \in {CLOSE_CLEAN, CLOSE_SESSION_REPLACED})
       => /\ PendingReconnectsNext(last'.m) = PendingReconnects(last'.m)
          /\ wsm'[last'.m].reconnectTimeout = wsm[last'.m].reconnectTimeout
          /\ wsm'[last'.m].reconnectAttempts = wsm[last'.m].reconnectAttempts
          /\ scheduledDelay' = scheduledDelay
          /\ NoConnectStarted(last'.m)]_vars

\* C6 witness: a socket was just closed with code 4000 while two
\* subscribers were registered, and no reconnect timer is pending.
C6_Witness ==
  /\ last.op = "close" /\ last.code = CLOSE_SESSION_REPLACED /\ last.subs = 2
  /\ PendingReconnects(last.m) = 0

\* C7 as claimed: a non-clean close with a subscriber schedules a reconnect
\* timer and adds one to the counter, and the timer firing with a
\* subscriber registered starts a new connect attempt.
C7_TimerAlwaysStartsAttempt ==
  [][/\ (last'.op \in {"close", "error"} /\ last'.subs >= 1
            /\ last'.code \notin {CLOSE_CLEAN, CLOSE_SESSION_REPLACED})
         => /\ PendingReconnectsNext(last'.m) = PendingReconnects(last'.m) + 1
            /\ wsm'[last'.m].reconnectAttempts = wsm[last'.m].reconnectAttempts + 1
     /\ (last'.op = "reconnect" /\ last'.subs >= 1)
         => /\ awaitingToken'[last'.m] = awaitingToken[last'.m] + 1
            /\ wsm'[last'.m].isConnecting]_vars

\* C7 amended: as claimed, except that the timer firing with a subscriber
\* registered calls connect(), which starts a new attempt unless one is in
\* flight or the tracked socket is open, and then changes nothing.
C7_TimerCallsConnect ==
  [][/\ (last'.op \in {"close", "error"} /\ last'.subs >= 1
            /\ last'.code \notin {CLOSE_CLEAN, CLOSE_SESSION_REPLACED})
         => /\ PendingReconnectsNext(last'.m) = PendingReconnects(last'.m) + 1
            /\ wsm'[last'.m].reconnectTimeout = "pending"
            /\ wsm'[last'.m].reconnectAttempts = wsm[last'.m].reconnectAttempts + 1
     /\ (last'.op = "reconnect" /\ last'.subs >= 1)
         => IF wsm[last'.m].isConnecting \/ IsOpen(World, last'.m)
            THEN /\ NoConnectStarted(last'.m)
                 /\ sockets' = sockets
                 /\ wsm'[last'.m].isConnecting = wsm[last'.m].isConnecting
            ELSE /\ awaitingToken'[last'.m] = awaitingToken[last'.m] + 1
                 /\ wsm'[last'.m].isConnecting
     /\ (last'.op = "reconnect" /\ last'.subs = 0) => NoConnectStarted(last'.m)]_vars

\* C7 witness: after a non-clean close, the reconnect timer fired with a
\* subscriber registered and its connect attempt awaits the token.
C7_Witness ==
  /\ last.op = "reconnect" /\ last.subs >= 1
  /\ wsm[last.m].reconnectAttempts >= 1
  /\ wsm[last.m].isConnecting /\ awaitingToken[last.m] = 1
  /\ \A s \in Slots : sockets[last.m][s] = "NONE"

\* The delays of the claim, in seconds.
ClaimedDelaySeconds == <<1, 2, 5, 10, 30>>

\* C8: the reconnect scheduled by the k-th non-suppressed close since the
\* counter was last reset (k from 0) is delayed by [1,2,5,10,30][min(k,4)] s.
C8_BackoffDelay ==
  [][\A m \in InstanceIds :
        closesSinceReset'[m] = closesSinceReset[m] + 1
          => scheduledDelay'[m] =
               1000 * ClaimedDelaySeconds[Min(closesSinceReset[m], 4) + 1]]_vars

\* C8 witness: the sixth non-suppressed close in a row (k = 5) scheduled a
\* reconnect 30 s later.
C8_Witness ==
  \E m \in InstanceIds :
    /\ closesSinceReset[m] = 6 /\ scheduledDelay[m] = 30000
    /\ last.op \in {"close", "error"} /\ last.m = m

\* The step called closeConnection() on the manager of instance m, or
\* constructed that manager.
ClosedOrConstructed(m) ==
  \/ last'.op = "disconnect"
  \/ last'.op = "cleanup" /\ last'.subs = 0
  \/ /\ last'.op = "connect"
     /\ \/ connections[m] = NoConn
        \/ wsm[m].currentUserId \notin {"null", wsm'[m].currentUserId}

\* C9 as claimed: the attempt counter goes back to 0 only in the step that
\* receives the auth confirmation.
C9_ResetOnlyOnAuth ==
  [][\A m \in InstanceIds :
        (wsm[m].reconnectAttempts > 0 /\ wsm'[m].reconnectAttempts = 0)
          => (last'.op = "auth.success" /\ last'.m = m)]_vars

\* C9 amended: the attempt counter goes back to 0 only in the step that
\* receives the auth confirmation or in a step that calls close()
\* (disconnect, the grace timer finding no subscriber, subscribe with
\* another user); the transport opening never changes it.
C9_ResetOnAuthOrClose ==
  [][\A m \in InstanceIds :
        /\ (wsm[m].reconnectAttempts > 0 /\ wsm'[m].reconnectAttempts = 0)
             => /\ last'.m = m
                /\ last'.op = "auth.success" \/ ClosedOrConstructed(m)
        /\ (last'.op = "open" /\ last'.m = m)
             => wsm'[m].reconnectAttempts = wsm[m].reconnectAttempts
        /\ (last'.op = "auth.success" /\ last'.m = m)
             => wsm'[m].reconnectAttempts = 0]_vars

\* C9 witness: a transport has just opened and the counter still stands
\* at 2, the closes counted since the last reset.
C9_Witness ==
  /\ last.op = "open"
  /\ wsm[last.m].reconnectAttempts = 2 /\ closesSinceReset[last.m] = 2

\* C10: a grace timer that fires while a subscriber is registered closes
\* no socket, sends no notification and changes nothing of the Connection.
C10_GraceTimerKeepsSubscribed ==
  [][(last'.op = "cleanup" /\ last'.subs >= 1)
       => /\ wsm' = wsm /\ sockets' = sockets
          /\ connections' = connections /\ instStatus' = instStatus
          /\ presenceConnected' = presenceConnected
          /\ awaitingToken' = awaitingToken /\ orphanTimers' = orphanTimers
          /\ cleanupTimers'[last'.m] = cleanupTimers[last'.m] - 1]_vars

\* C10 witness: a grace timer has just fired with a subscriber registered
\* and the manager still tracks a socket that is connecting or open.
C10_Witness ==
  /\ last.op = "cleanup" /\ last.subs >= 1
  /\ wsm[last.m].ws # 0
  /\ sockets[last.m][wsm[last.m].ws] \in {"CONNECTING", "OPEN"}


\* The outbound queue of instance i (empty without a Connection record).
QueueOf(i) == IF connections[i] = NoConn THEN <<>> ELSE connections[i].messageQueue

\* The same, after the step.
QueueOfNext(i) ==
  IF connections'[i] = NoConn THEN <<>> ELSE connections'[i].messageQueue

\* The frames a queue q makes on the wire when it is replayed after it was
\* cleared.
Replayed(q) ==
  [k \in 1..Len(q) |-> [id |-> q[k].id, type |-> q[k].type, qlen |-> 0]]

\* How often message id is in the queue / was transmitted, all instances.
InQueue(id) ==
  Cardinality({<<i, k>> \in InstanceIds \X (1..QMsgs + 1) :
                 k <= Len(QueueOf(i)) /\ QueueOf(i)[k].id = id})

Sent(id) ==
  Cardinality({<<i, k>> \in InstanceIds \X (1..2 * (QMsgs + 1)) :
                 k <= Len(wire[i]) /\ wire[i][k].id = id})

\* C3 as claimed: send() while the instance's status is not connected
\* transmits nothing and appends the message to the queue.
C3_NotConnectedEnqueues ==
  [][(/\ last'.op = "send"
      /\ connections[last'.m] # NoConn
      /\ connections[last'.m].status # "connected")
       => /\ wire' = wire
          /\ QueueOfNext(last'.m) =
               Append(QueueOf(last'.m), [id |-> nextId, type |-> "typing.start"])]_vars

\* C3 amended: send() while the Connection does not report open (its
\* tracked socket is not OPEN) transmits nothing; it appends the message to
\* the queue when the instance has a Connection record and drops it
\* otherwise.  While the Connection reports open, also before the auth
\* confirmation has made the status connected, send() transmits at once.
C3_NotOpenEnqueues ==
  [][last'.op = "send"
       => LET i == last'.m
              msg == [id |-> nextId, type |-> "typing.start"]
          IN IF connections[i] = NoConn
             THEN wire' = wire /\ connections' = connections
             ELSE IF IsOpen(World, i)
             THEN /\ connections' = connections
                  /\ wire'[i] = Append(wire[i], [id |-> msg.id, type |-> msg.type,
                                                 qlen |-> Len(QueueOf(i))])
             ELSE /\ wire' = wire
                  /\ QueueOfNext(i) = Append(QueueOf(i), msg)]_vars

\* C3 witness: send() has just put its message on the queue of an instance
\* whose Connection tracks a socket that is not open yet.
C3_Witness ==
  /\ last.op = "send"
  /\ connections[last.m] # NoConn
  /\ ~IsOpen(World, last.m) /\ wsm[last.m].ws # 0
  /\ Len(QueueOf(last.m)) >= 1
  /\ QueueOf(last.m)[Len(QueueOf(last.m))].id = nextId - 1
  /\ wire[last.m] = <<>>

\* C4: a step that transmits queued messages is the step in which the
\* instance becomes connected; it transmits the whole queue, in the order
\* of enqueueing, every frame leaving with the queue already empty, and it
\* leaves the queue empty (a second notification of the same step finds
\* nothing to replay).
C4_FlushClearsThenReplays ==
  [][\A i \in InstanceIds :
        LET new == SubSeq(wire'[i], Len(wire[i]) + 1, Len(wire'[i])) IN
        /\ Len(wire'[i]) >= Len(wire[i])
        /\ (\E k \in 1..Len(new) : new[k].id \in everQueued)
             => /\ new = Replayed(QueueOf(i))
                /\ QueueOfNext(i) = <<>>
                /\ last'.op = "auth.success" /\ last'.m = i
                /\ connections'[i].status = "connected"
        /\ (last'.op = "auth.success" /\ last'.m = i /\ last'.subs >= 1
              /\ connections[i] # NoConn /\ IsOpen(World, i))
             => new = Replayed(QueueOf(i)) /\ QueueOfNext(i) = <<>>]_vars

\* C4 witness: the auth confirmation, notified to two handlers, has just
\* replayed a queue of two messages in their order.
C4_Witness ==
  /\ last.op = "auth.success" /\ last.subs = 2
  /\ everQueued = {1, 2}
  /\ wire[last.m] = Replayed(<<[id |-> 1, type |-> "typing.start"],
                               [id |-> 2, type |-> "typing.start"]>>)
  /\ QueueOf(last.m) = <<>>

\* C5 as claimed: every message that was put on a queue is, at any moment,
\* still queued or transmitted exactly once.
C5_QueuedSentExactlyOnce ==
  \A id \in everQueued : InQueue(id) + Sent(id) = 1

\* C5 amended: every message that was put on a queue is, at any moment,
\* still queued, or transmitted exactly once, or was in the queue when
\* disconnect() destroyed the Connection record, and then it is never
\* transmitted.
C5_QueuedSentOnceOrDropped ==
  \A id \in everQueued :
    InQueue(id) + Sent(id) + (IF id \in dropped THEN 1 ELSE 0) = 1

\* C5 witness: two messages were queued and each was transmitted exactly
\* once, on an instance that went through a non-clean close and a
\* reconnect.
C5_Witness ==
  /\ everQueued = {1, 2} /\ dropped = {}
  /\ Sent(1) = 1 /\ Sent(2) = 1
  /\ \E i \in InstanceIds :
       scheduledDelay[i] > 0 /\ connections[i] # NoConn
         /\ connections[i].status = "connected"


\* The records of the channel's list that stand for the send of nonce T:
\* its optimistic record, or the server's message of that send.
RecordsFor(T) ==
  Cardinality({k \in 1..Len(messagesByChannel) :
                 \/ IsOptimistic(messagesByChannel[k]) /\ messagesByChannel[k].nonce = T
                 \/ messagesByChannel[k].id = ServerId(T)})

\* C2: once the REST response or a create event carrying nonce T has
\* arrived, the channel's list holds exactly one record for that send
\* (a send the user discarded or retried aside).
C2_ExactlyOneRecord ==
  \A T \in arrived \ discarded : RecordsFor(T) = 1

\* C11: a connect attempt that gets no token ends without a socket and
\* without a reconnect timer and leaves the manager not connecting; a
\* subscribe that then finds no tracked socket starts a fresh attempt.
C11_NoTokenEndsAttempt ==
  [][/\ (last'.op = "token" /\ last'.code = 0)
          => /\ sockets' = sockets
             /\ wsm'[last'.m].ws = wsm[last'.m].ws
             /\ PendingReconnectsNext(last'.m) = PendingReconnects(last'.m)
             /\ wsm'[last'.m].reconnectTimeout = wsm[last'.m].reconnectTimeout
             /\ wsm'[last'.m].reconnectAttempts = wsm[last'.m].reconnectAttempts
             /\ ~wsm'[last'.m].isConnecting
             /\ awaitingToken'[last'.m] = awaitingToken[last'.m] - 1
     /\ (/\ last'.op = "connect"
         /\ connections[last'.m] # NoConn
         /\ connections[last'.m].status # "connected"
         /\ last.op = "token" /\ last.code = 0 /\ last.m = last'.m
         /\ wsm[last'.m].ws = 0)
          => /\ wsm'[last'.m].isConnecting
             /\ awaitingToken'[last'.m] = awaitingToken[last'.m] + 1]_vars

\* C11 witness: the attempt a reconnect timer started got no token; it
\* ended with subscribers registered, no socket, no timer pending and the
\* manager not connecting.
C11_Witness ==
  /\ last.op = "token" /\ last.code = 0 /\ last.subs >= 1
  /\ wsm[last.m].reconnectAttempts >= 1
  /\ ~wsm[last.m].isConnecting /\ awaitingToken[last.m] = 0
  /\ PendingReconnects(last.m) = 0
  /\ \A s \in Slots : sockets[last.m][s] = "NONE"

\* C12: a frame that fails to parse is dropped: no message handler runs
\* for it, and the sockets, the manager (attempt counter included), the
\* connection status and the outbound queue are unchanged; a frame that
\* arrives after it reaches every registered handler.
C12_MalformedFrameDropped ==
  [][/\ last'.op = "bad"
          => /\ last'.handled = 0
             /\ sockets' = sockets /\ wsm' = wsm
             /\ connections' = connections /\ instStatus' = instStatus
             /\ presenceConnected' = presenceConnected
             /\ wire' = wire /\ dispatched' = dispatched
             /\ awaitingToken' = awaitingToken /\ orphanTimers' = orphanTimers
     /\ (last.op = "bad" /\ last'.op = "message" /\ last'.m = last.m)
          => last'.handled = wsm[last'.m].handlers]_vars

\* C12 witness: a frame that does not parse was just dropped on an open
\* socket with a handler registered, a message waiting in the queue and
\* the attempt counter at 1.
C12_Witness ==
  /\ last.op = "bad" /\ last.handled = 0
  /\ IsOpen(World, last.m) /\ wsm[last.m].handlers >= 1
  /\ wsm[last.m].reconnectAttempts = 1
  /\ Len(QueueOf(last.m)) >= 1

C14_LastUserRemovesEntry ==
  /\ lastReaction.emptied
       => \A k \in 1..Len(reactions) : reactions[k].emoji # lastReaction.emoji
  /\ \A k \in 1..Len(reactions) :
       reactions[k].count >= 1 /\ reactions[k].users # <<>>

\* C14 witness: a reaction.remove event has just taken the last user of
\* its emoji away; the list has no entry of that emoji and still has the
\* entry of the other emoji.
C14_Witness ==
  /\ lastReaction.op = "reaction.remove" /\ lastReaction.emptied
  /\ Len(reactions) = 1
  /\ reactions[1].emoji # lastReaction.emoji

\* C15: connect(i, u) on an instance whose record has status "connected"
\* changes nothing: no new record, no new subscription, no new socket or
\* timer, the statuses as they were.
C15_ConnectIdempotent ==
  [][(/\ last'.op = "connect"
      /\ connections[last'.m] # NoConn
      /\ connections[last'.m].status = "connected")
       => UNCHANGED connState]_vars

\* C15 witness: connect has just been called on a connected instance whose
\* socket is open.
C15_Witness ==
  /\ last.op = "connect"
  /\ connections[last.m] # NoConn
  /\ connections[last.m].status = "connected"
  /\ instStatus[last.m] = "connected"
  /\ IsOpen(World, last.m)
  /\ wsm[last.m].subscriberCount = 1

\* C16: the task in which switchInstance(i, u) leaves a previous active
\* instance ends with that instance's record removed and its status
\* "disconnected", and does nothing of the connect of i; that connect runs
\* in the task in which the call resumes.
C16_DisconnectThenConnect ==
  [][(/\ last'.op = "switch"
      /\ switchCount' = switchCount + 1
      /\ activeInstanceId \notin {"none", last'.m})
       => /\ connections'[activeInstanceId] = NoConn
          /\ instStatus'[activeInstanceId] = "disconnected"
          /\ activeInstanceId' = activeInstanceId
          /\ connections'[last'.m] = connections[last'.m]
          /\ instStatus'[last'.m] = instStatus[last'.m]
          /\ wsm'[last'.m] = wsm[last'.m]
          /\ awaitingToken'[last'.m] = awaitingToken[last'.m]
          /\ Len(switching') = Len(switching) + 1]_vars

\* C17: the events dispatched for an instance are in the order of the
\* frames that carried them: in the log of an instance no dispatch of a
\* frame comes before a dispatch of an earlier frame of that instance, and
\* every dispatch is of a frame already delivered.
C17_DispatchInFrameOrder ==
  \A i \in InstanceIds :
    /\ \A a, b \in 1..Len(dispatched[i]) :
         a < b => dispatched[i][a].frame <= dispatched[i][b].frame
    /\ \A a \in 1..Len(dispatched[i]) :
         /\ dispatched[i][a].frame \in 1..frameNo[i]
         /\ dispatched[i][a].type # "bad"

\* C17 witness: both instances have had frames dispatched, one of them two
\* frames of different types, each to two handlers.
C17_Witness ==
  /\ \E i \in InstanceIds :
       /\ Len(dispatched[i]) = 4
       /\ \E a, b \in 1..Len(dispatched[i]) :
            /\ dispatched[i][a].frame < dispatched[i][b].frame
            /\ dispatched[i][a].type # dispatched[i][b].type
  /\ \A i \in InstanceIds : dispatched[i] # <<>>

\* C18: at most one refresh request of the instance is outstanding at any
\* time, whoever asked for it.
C18_AtMostOneRefresh == pendingRefresh.rest + pendingRefresh.ws <= 1

\* C19: get(id) on an id that has an entry returns that entry's container
\* and constructs nothing; on an id without one (never got, or cleared) it
\* returns a container that did not exist before, in its initial state.
\* Between two clears of an id the factory runs exactly once for an id that
\* has an entry, and not at all for one that has none.
C19_GetReturnsCached ==
  [][/\ \A id \in InstanceIds :
          factoryCalls'[id] = IF stores'[id] # 0 THEN 1 ELSE 0
     /\ lastRegistry'.op = "get" =>
          LET id == lastRegistry'.id
              c == lastRegistry'.container
          IN /\ c \in Containers /\ stores'[id] = c
             /\ \A j \in InstanceIds \ {id} : stores'[j] # c
             /\ stores[id] # 0
                  => c = stores[id] /\ containers' = containers
                                    /\ factoryCalls' = factoryCalls
             /\ stores[id] = 0
                  => /\ containers[c] = NoContainer
                     /\ containers'[c] = CreateStore(id)
                     /\ factoryCalls'[id] = 1]_vars

\* C19 witness: get has just returned the cached container of an id, whose
\* state a caller has changed, while a container of the same id from
\* before a clear still exists.
C19_Witness ==
  /\ lastRegistry.op = "get"
  /\ stores[lastRegistry.id] = lastRegistry.container
  /\ containers[lastRegistry.container].value > 0
  /\ \E d \in Containers \ {lastRegistry.container} :
       /\ containers[d] # NoContainer
       /\ containers[d].instanceId = lastRegistry.id

\* C20: a change of the state of a container of one id, and clear of one
\* id, leave the entries of every other id and the state of every other
\* container as they were.
C20_OtherInstancesUntouched ==
  [][/\ lastRegistry'.op = "mutate" =>
          /\ stores' = stores
          /\ \A d \in Containers \ {lastRegistry'.container} :
               containers'[d] = containers[d]
     /\ lastRegistry'.op = "clear" =>
          /\ \A j \in InstanceIds \ {lastRegistry'.id} : stores'[j] = stores[j]
          /\ containers' = containers]_vars

\* C20 witness: the id of one instance has just been cleared while the
\* other has an entry whose container a caller has changed.
C20_Witness ==
  /\ lastRegistry.op = "clear"
  /\ stores[lastRegistry.id] = 0
  /\ \E d \in Containers :
       containers[d] # NoContainer /\ containers[d].instanceId = lastRegistry.id
  /\ \E j \in InstanceIds \ {lastRegistry.id} :
       stores[j] # 0 /\ containers[stores[j]].value > 0

\* What belongs to instance j: its manager, sockets, suspended connects,
\* timers, record with its queue, statuses and wire.
InstanceState(j) ==
  <<wsm[j], sockets[j], awaitingToken[j], cleanupTimers[j], orphanTimers[j],
    connections[j], instStatus[j], presenceConnected[j], wire[j]>>

InstanceStateNext(j) ==
  <<wsm'[j], sockets'[j], awaitingToken'[j], cleanupTimers'[j], orphanTimers'[j],
    connections'[j], instStatus'[j], presenceConnected'[j], wire'[j]>>

\* The task that ran is a failure of a session: a connect attempt without
\* a token, a transport error, a close that is not clean.
FailureTask(ev) ==
  \/ ev.op = "token" /\ ev.code = 0
  \/ ev.op = "error"
  \/ ev.op = "close" /\ ev.code # CLOSE_CLEAN

C23_ScenarioA ==
  scenarioA = 5 =>
    /\ \E k \in 1..Len(wire["i1"]) : wire["i1"][k].type = "typing.start"
    /\ restCalls[1] = "ok" => messagesByChannel = <<ServerMessage(ServerId(1))>>
    /\ RestPending(1) =>
         \/ messagesByChannel = <<OptimisticMessage(1)>>
         \/ messagesByChannel = <<ServerMessage(ServerId(1))>>

\* C23 witness: the end of scenario A.
C23_Witness ==
  /\ scenarioA = 5
  /\ restCalls[1] = "ok"
  /\ messagesByChannel = <<ServerMessage(ServerId(1))>>
  /\ instStatus["i1"] = "connected" /\ IsOpen(World, "i1")
  /\ connections["i1"].messageQueue = <<>>
  /\ Len(wire["i1"]) = 1 /\ wire["i1"][1].id \in everQueued

\* closeConnection() ran on the manager of instance m in the step: the
\* handle, the flag, the counter and the user it leaves behind.
ClosedFields(m) ==
  /\ wsm'[m].ws = 0
  /\ wsm'[m].reconnectTimeout = "undefined"
  /\ wsm'[m].reconnectAttempts = 0
  /\ wsm'[m].currentUserId = "null"
  /\ wsm[m].ws # 0 =>
       /\ sockets[m][wsm[m].ws] = "OPEN" => sockets'[m][wsm[m].ws] = "CLOSING"
       /\ sockets[m][wsm[m].ws] = "CONNECTING" => sockets'[m][wsm[m].ws] = "ABORTING"

\* C24: after closeConnection() (here: the one disconnect() runs on an
\* instance that has a record) no reconnect timer of the manager is
\* pending, it holds no socket handle, the socket it held, if open or
\* opening, was closed with code 1000, the attempt counter is 0 and the
\* tracked user is cleared.
C24_CloseConnectionClears ==
  [][(last'.op = "disconnect" /\ connections[last'.m] # NoConn) =>
       /\ ClosedFields(last'.m)
       /\ PendingReconnectsNext(last'.m) = 0]_vars

\* Socket s of instance m is one the manager has replaced: it tracks
\* another socket.
Replaced(m, s) == sockets[m][s] # "NONE" /\ wsm[m].ws \notin {0, s}

\* C25: the close event of a socket the manager has replaced leaves the
\* tracked handle and the status of the instance as they were.
C25_StaleCloseIgnored ==
  [][\A s \in Slots :
       (last'.op \in {"close", "error"} /\ sockets'[last'.m][s] = "NONE"
          /\ Replaced(last'.m, s)) =>
         /\ wsm'[last'.m].ws = wsm[last'.m].ws
         /\ instStatus'[last'.m] = instStatus[last'.m]]_vars

\* C26: the manager of an instance holds at most one subscription (one
\* message handler and one connection handler, added together by
\* subscribe), and an inbound envelope is handed to handleMessage at most
\* once.
C26_AtMostOneSubscription ==
  /\ \A i \in InstanceIds : wsm[i].handlers <= 1 /\ wsm[i].subscriberCount <= 1
  /\ last.handled <= 1

\* C27: the frames of an instance are on the wire in the order of the
\* send() calls that made them (message ids are given in call order).
C27_WireInSendOrder ==
  \A i \in InstanceIds :
    \A j, k \in 1..Len(wire[i]) : j < k => wire[i][j].id < wire[i][k].id

\* A getValidToken call that has returned a token: connect() goes on to
\* open the socket with it.
OpensSocket(call) == call.state = "returned" /\ call.token # 0

\* C28 as claimed: a connect() that finds the access token absent or
\* expired requests a refresh, and a socket it opens is opened with the
\* token that refresh stored.
C28_AbsentOrExpiredRefreshes ==
  \A k \in 1..Len(tokenCalls) :
    LET call == tokenCalls[k] IN
    (call.at = 0 \/ call.expired) =>
      /\ call.requested
      /\ OpensSocket(call) => call.token > call.at

\* C28 amended: a connect() that finds an access token that is expired
\* requests a refresh before anything else and opens the socket only with
\* the token that refresh stored (no socket when the refresh fails); one
\* that finds no access token requests no refresh and opens no socket; one
\* that finds a token that is not expired opens the socket with it and
\* requests nothing.
C28_ExpiredRefreshes ==
  \A k \in 1..Len(tokenCalls) :
    LET call == tokenCalls[k] IN
    /\ call.expired => /\ call.requested
                       /\ OpensSocket(call) => call.token > call.at
    /\ call.at = 0 => ~call.requested /\ call.state = "returned" /\ call.token = 0
    /\ (call.at # 0 /\ ~call.expired) =>
         ~call.requested /\ call.state = "returned" /\ call.token = call.at

\* C28 witness: a connect() found an expired token, its refresh was
\* answered and the socket is opened with the new token; another found no
\* token at all.
C28_Witness ==
  /\ \E k \in 1..Len(tokenCalls) :
       /\ tokenCalls[k].expired /\ tokenCalls[k].requested
       /\ OpensSocket(tokenCalls[k]) /\ tokenCalls[k].token = tokenCalls[k].at + 1
  /\ \E k \in 1..Len(tokenCalls) : tokenCalls[k].at = 0

\* C29: from the return of disconnect(i) to the next connect(i, ...) the
\* instance has no record; all that time no socket of the instance is
\* open or opening, no inbound envelope of it is handled and its status is
\* not written.
C29_NothingAfterDisconnect ==
  [][\A i \in InstanceIds :
       (connections[i] = NoConn /\ connections'[i] = NoConn) =>
         /\ \A s \in Slots : sockets'[i][s] \notin {"CONNECTING", "OPEN"}
         /\ instStatus'[i] = instStatus[i]
         /\ last'.m = i => last'.handled = 0]_vars

\* C30: no two records of the channel's message list have the same id.
C30_NoDuplicateIds ==
  \A j, k \in 1..Len(messagesByChannel) :
    j # k => messagesByChannel[j].id # messagesByChannel[k].id

\* C31: a connect attempt whose token arrives when no subscriber is left
\* creates no socket and leaves the manager not connecting.
C31_NoSubscribersNoSocket ==
  [][(last'.op = "token" /\ wsm[last'.m].subscriberCount = 0) =>
       /\ sockets' = sockets
       /\ wsm'[last'.m].ws = wsm[last'.m].ws
       /\ ~wsm'[last'.m].isConnecting]_vars

\* C31 witness: the token of an attempt has just arrived after the only
\* subscriber had unsubscribed; no socket was created.
C31_Witness ==
  /\ last.op = "token" /\ last.code = 1 /\ last.subs = 0
  /\ wsm[last.m].subscriberCount = 0
  /\ ~wsm[last.m].isConnecting /\ wsm[last.m].ws = 0
  /\ \A s \in Slots : sockets[last.m][s] = "NONE"
  /\ awaitingToken[last.m] = 0

\* C32: the presence store's connected flag of an instance is set only
\* while the instance's status is "connected".
C32_PresenceFollowsStatus ==
  \A i \in InstanceIds : presenceConnected[i] => instStatus[i] = "connected"

\* C33: a status "connecting" does not last forever: it becomes
\* "connected" or "disconnected".
C33_ConnectingSettles ==
  (instStatus["i1"] = "connecting") ~> (instStatus["i1"] \in {"connected", "disconnected"})

\* The list after the pending record of nonce T, if it has one, was
\* replaced at its index by the server's record of that send.
ReconciledInPlace(list, T) ==
  [k \in 1..Len(list) |->
     IF IsOptimistic(list[k]) /\ list[k].nonce = T /\ list[k].pending
     THEN ServerMessage(ServerId(T)) ELSE list[k]]

\* C34: when the REST call of nonce T succeeds, or a message.create event
\* carrying T is dispatched, while the list holds the pending record of T,
\* the server's record takes that record's index; the length of the list
\* and every other record stay as they were.
C34_ReconciledInPlace ==
  [][\A T \in 1..MaxSends :
       (/\ PendingRecord(messagesByChannel, T)
        /\ \/ restCalls[T] = "processed" /\ restCalls'[T] = "ok"
           \/ /\ inbound # <<>> /\ inbound' = Tail(inbound)
              /\ Head(inbound).nonce = T)
         => messagesByChannel' = ReconciledInPlace(messagesByChannel, T)]_vars

\* C34 witness: the event carrying nonce 1 has replaced the first of two
\* pending records at its index, before the REST call of nonce 1 returned.
C34_Witness ==
  /\ messagesByChannel = <<ServerMessage(ServerId(1)), OptimisticMessage(2)>>
  /\ restCalls[1] = "processed" /\ 1 \in arrived
  /\ inbound = <<>>

\* The list holds the optimistic record of nonce T, pending or failed.
OptimisticRecord(list, T) ==
  \E k \in 1..Len(list) : IsOptimistic(list[k]) /\ list[k].nonce = T

\* C35: the pending record of nonce T leaves the list only when it is
\* reconciled (REST success, or a message.create event carrying T), or
\* when it is discarded or retried.
C35_PendingLeavesByReconciliation ==
  [][\A T \in 1..MaxSends :
       (PendingRecord(messagesByChannel, T) /\ ~OptimisticRecord(messagesByChannel', T))
         => \/ restCalls[T] = "processed" /\ restCalls'[T] = "ok"
            \/ /\ inbound # <<>> /\ inbound' = Tail(inbound)
               /\ Head(inbound).nonce = T
            \/ T \in discarded' \ discarded]_vars

\* The list without the optimistic record of nonce T (which is in it).
WithoutRecord(list, T) ==
  LET k == CHOOSE j \in 1..Len(list) : IsOptimistic(list[j]) /\ list[j].nonce = T
  IN [j \in 1..Len(list) - 1 |-> IF j < k THEN list[j] ELSE list[j + 1]]

Subscribed(i) ==
  /\ last'.op = "connect" /\ last'.m = i
  /\ connections[i] # NoConn
  /\ wsm'[i].subscriberCount = wsm[i].subscriberCount + 1

\* The manager of instance i started a connect attempt in the step.
AttemptStarted(i) ==
  /\ awaitingToken'[i] = awaitingToken[i] + 1
  /\ wsm'[i].isConnecting

\* C37: subscribe with a user other than the tracked one closes the
\* tracked socket (code 1000) and only then starts a connect attempt, which
\* has no socket yet; subscribe with the tracked user closes nothing and
\* starts an attempt only if the manager has no socket and is not
\* connecting.
C37_UserChangeClosesFirst ==
  [][\A i \in InstanceIds :
       Subscribed(i) =>
         IF wsm[i].currentUserId \notin {"null", wsm'[i].currentUserId}
         THEN /\ \A s \in Slots :
                   sockets'[i][s] =
                     IF s = wsm[i].ws /\ sockets[i][s] = "OPEN" THEN "CLOSING"
                     ELSE IF s = wsm[i].ws /\ sockets[i][s] = "CONNECTING" THEN "ABORTING"
                     ELSE sockets[i][s]
              /\ wsm'[i].ws = 0 /\ wsm'[i].reconnectTimeout = "undefined"
              /\ AttemptStarted(i)
         ELSE /\ sockets' = sockets /\ wsm'[i].ws = wsm[i].ws
              /\ wsm'[i].reconnectTimeout = wsm[i].reconnectTimeout
              /\ IF wsm[i].ws = 0 /\ ~wsm[i].isConnecting
                 THEN AttemptStarted(i)
                 ELSE awaitingToken' = awaitingToken
                      /\ wsm'[i].isConnecting = wsm[i].isConnecting]_vars

\* C37 witness: connect with another user has just closed the open socket
\* of the previous user and started an attempt that awaits its token.
C37_Witness ==
  /\ last.op = "connect"
  /\ wsm[last.m].currentUserId = "u2" /\ wsm[last.m].subscriberCount = 2
  /\ wsm[last.m].ws = 0 /\ wsm[last.m].isConnecting
  /\ awaitingToken[last.m] = 1
  /\ \E s \in Slots : sockets[last.m][s] = "CLOSING"

\* The users an entry lists, as a set.
UsersOf(r) == {r.users[k] : k \in 1..Len(r.users)}

\* C38: the reaction list of the message has at most one entry per emoji,
\* and the count of every entry is the number of distinct users it lists,
\* which is at least 1 (no user is listed twice).
C38_CountsMatchUsers ==
  /\ \A j, k \in 1..Len(reactions) : j # k => reactions[j].emoji # reactions[k].emoji
  /\ \A k \in 1..Len(reactions) :
       /\ reactions[k].count = Cardinality(UsersOf(reactions[k]))
       /\ reactions[k].count = Len(reactions[k].users)
       /\ reactions[k].count >= 1

\* C38 witness: the REST response of a local toggle has just been applied,
\* all events are dispatched, and the entry of that emoji lists both users
\* once.
C38_Witness ==
  /\ lastReaction.op = "toggle.added"
  /\ reactionEvents = <<>>
  /\ \E k \in 1..Len(reactions) :
       /\ reactions[k].emoji = lastReaction.emoji
       /\ reactions[k].count = 2 /\ UsersOf(reactions[k]) = Usernames
       /\ reactions[k].users[Len(reactions[k].users)] = "other"

\* C39: when removeInstance(i) has run, the Coordinator has no record of
\* i, no socket of i is open or opening, and the chat store registry has
\* no container for i.
C39_RemovedLeavesNothing ==
  \A i \in InstanceIds :
    (last.op = "removeInstance" /\ last.m = i) =>
      /\ connections[i] = NoConn
      /\ \A s \in Slots : sockets[i][s] \notin {"CONNECTING", "OPEN"}
      /\ stores[i] = 0

\* C40: a step that delivers a ping to instance i appends exactly one pong
\* to the wire of i and nothing to the wire of another instance.
C40_OnePongPerPing ==
  [][\A i \in InstanceIds :
       (last'.op = "ping" /\ last'.m = i) =>
         /\ Len(wire'[i]) = Len(wire[i]) + 1
         /\ SubSeq(wire'[i], 1, Len(wire[i])) = wire[i]
         /\ wire'[i][Len(wire'[i])].type = "pong"
         /\ \A j \in InstanceIds \ {i} : wire'[j] = wire[j]]_vars

====
